---- MODULE Spec2Model ----
(***************************************************************************)
(* A model of the multi-language installer (src/src/main.rs).              *)
(*                                                                         *)
(* Spec         the egui front-end (JdkInstallerApp::update) together with *)
(*              the background threads it spawns, each one executing       *)
(*              run_installation_logic and then the completion closure.    *)
(* SpecCompat   is_version_compatible applied to bounded strings.          *)
(* SpecExtract  extraction of one archive into an empty install path and   *)
(*              the normalization of its top-level directory.              *)
(* SpecRuns     consecutive runs of run_installation_logic for one request *)
(*              on one machine: resolution, idempotency check, install,    *)
(*              verification, with the version strings they compare.       *)
(***************************************************************************)
EXTENDS Integers, Sequences, FiniteSets, TLC

(***************************************************************************)
(* Bounds of the model.                                                    *)
(***************************************************************************)
\* Install clicks (= spawned background threads) in one behaviour.
MaxRuns == 2
\* Non-empty chunks the HTTP response body delivers before end of stream.
MaxChunks == 2
\* Entries of a downloaded archive.
MaxEntries == 2

\* Longest installed-version string and longest requirement string that
\* is_version_compatible is applied to (besides the documented examples).
MaxInstalledLen == 2
MaxRequiredLen == 4

\* Entries of an archive in the extraction model.
MaxArchiveLen == 3

\* Consecutive runs of one request in the model of the idempotency check.
MaxConsecutiveRuns == 2

\* The vendor tabs of the window that the concurrency model follows: the
\* tab selected at start, installed from an archive, and the tab of the
\* vendor installed through rustup.
TabVendors == {"azul", "rust"}

(***************************************************************************)
(* State of the front-end and of the background threads.                   *)
(***************************************************************************)
VARIABLES
    selected_vendor,            \* JdkInstallerApp.selected_vendor (the app eframe runs)
    show_cancel_confirmation,   \* JdkInstallerApp.show_cancel_confirmation
    language_states,            \* language_states of the app eframe runs: vendor -> record
    stored_states,              \* language_states of the app main() stored in the egui data
    cancel_requested,           \* value of the AtomicBool behind LanguageState.cancel_requested
    threads,                    \* background threads, in spawn order
    history                     \* per thread: what happened to its flag (auxiliary)

uiVars == <<selected_vendor, show_cancel_confirmation, language_states,
            stored_states, cancel_requested, threads, history>>

\* One call of is_version_compatible: its arguments and its return value.
VARIABLES
    installed_version,          \* &str, as a sequence of characters
    required_specifier,         \* &str, as a sequence of characters
    compat_called,              \* the call has returned
    compat_result               \* the value it returned

compatVars == <<installed_version, required_specifier, compat_called, compat_result>>

\* One extraction (main.rs 733-857) into current_install_target_path.
VARIABLES
    archive,                        \* the entries of the archive, in archive order
    fs,                             \* what exists below the install path
    extracted_top_level_dir_name,   \* Option<String>: <<>> is None, <<name>> is Some(name)
    entry_index,                    \* entries processed so far
    moved,                          \* entries of the top-level directory moved up so far
    extract_pc                      \* "extract", "moving", "done" (Ok so far) or "failed" (Err)

extractVars == <<archive, fs, extracted_top_level_dir_name, entry_index, moved, extract_pc>>

\* Consecutive runs of run_installation_logic for one request.
VARIABLES
    request,        \* vendor, version, install_latest as the Install handler passes them
    machine,        \* the outside world of the runs: OS, vendor data, the vendor's executable
    disk,           \* expected_final_sdk_path: does it exist, does the executable exist in it
    run_no,         \* number of the current run
    run_pc,         \* position of the current run
    run,            \* the current run: what it found and did, and its result
    first_run       \* the same for the first run, once it has returned

runVars == <<request, machine, disk, run_no, run_pc, run, first_run>>

\* The two JdkInstallerApp objects of main(), seen through one vendor's
\* LanguageState, and the background threads that report into them.
VARIABLES
    ui_state,       \* the LanguageState of the app eframe runs (what update() reads and draws)
    stored_state,   \* the LanguageState of the app kept in the egui data (what the threads write)
    cancel_flag,    \* the AtomicBool of ui_state, shared with the threads
    cancel_dialog,  \* show_cancel_confirmation
    workers         \* sequence of thread records, in spawn order

stateVars == <<ui_state, stored_state, cancel_flag, cancel_dialog, workers>>

\* One run's download and extraction, by the numbers behind its progress.
VARIABLES
    job_pc,         \* position of the run: send, download, open, extract, verify, returned
    job,            \* sizes and counts of the download and of the archive
    progress        \* download_progress and extract_progress as update_app_state left them

progressVars == <<job_pc, job, progress>>

\* The Python steps after the executable has answered --version.
VARIABLES
    pip_pc,         \* position: verify, bootstrap, install, show, check, done, returned
    pip             \* the run's inputs, its position in the library list and what it did

pipVars == <<pip_pc, pip>>

\* The environment of the process and the runs that configure it.
VARIABLES
    env_os,         \* os_name_raw of detect_platform
    process_env,    \* the environment variables of the process; PATH as its entries
    env_runs        \* per vendor: position of its run in the environment step
envVars == <<env_os, process_env, env_runs>>

\* The mutexes and the threads that take them.
VARIABLES
    lock_owner,     \* per mutex: the thread that holds it, or "free"
    lock_threads,   \* per thread: its vendor and its position
    lock_orders     \* the pairs <<held, acquired>> of every lock() called with a guard alive
lockVars == <<lock_owner, lock_threads, lock_orders>>

\* One run of run_installation_logic with the files it creates.
VARIABLES
    task_pc,        \* position of the run
    task            \* its arguments, its locals, the flag and the files under the install root
taskVars == <<task_pc, task>>

vars == <<uiVars, compatVars, extractVars, runVars, stateVars, progressVars, pipVars, envVars, lockVars, taskVars>>

\* The variables each specification leaves alone.
notUiVars == <<compatVars, extractVars, runVars, stateVars, progressVars, pipVars, envVars, lockVars, taskVars>>
notCompatVars == <<uiVars, extractVars, runVars, stateVars, progressVars, pipVars, envVars, lockVars, taskVars>>
notExtractVars == <<uiVars, compatVars, runVars, stateVars, progressVars, pipVars, envVars, lockVars, taskVars>>
notRunVars == <<uiVars, compatVars, extractVars, stateVars, progressVars, pipVars, envVars, lockVars, taskVars>>
notStateVars == <<uiVars, compatVars, extractVars, runVars, progressVars, pipVars, envVars, lockVars, taskVars>>
notProgressVars == <<uiVars, compatVars, extractVars, runVars, stateVars, pipVars, envVars, lockVars, taskVars>>
notPipVars == <<uiVars, compatVars, extractVars, runVars, stateVars, progressVars, envVars, lockVars, taskVars>>
notEnvVars == <<uiVars, compatVars, extractVars, runVars, stateVars, progressVars, pipVars, lockVars, taskVars>>
notLockVars == <<uiVars, compatVars, extractVars, runVars, stateVars, progressVars, pipVars, envVars, taskVars>>
notTaskVars == <<uiVars, compatVars, extractVars, runVars, stateVars, progressVars, pipVars, envVars, lockVars>>

(***************************************************************************)
(* Strings are sequences of one-character strings; the operators below are *)
(* the std::str methods the program uses.                                  *)
(***************************************************************************)
\* The characters of the model in byte order (str comparison is bytewise).
ByteOrder == <<"\n", " ", "\"", "(", ")", "-", ".", "/",
               "0", "1", "2", "3", "4", "5", "6", "7", "8", "9",
               "<", "=", ">", "P", "a", "b", "c", "d", "e", "g", "h", "i",
               "j", "k", "l", "n", "o", "p", "r", "s", "t", "u", "v", "w", "y">>
Byte(c) == CHOOSE k \in 1..Len(ByteOrder) : ByteOrder[k] = c
IsWhitespace(c) == c \in {" ", "\n"}

\* a <= b for &str (Ord for str: lexicographic on bytes).
RECURSIVE StrLe(_, _)
StrLe(a, b) ==
    IF a = <<>> THEN TRUE
    ELSE IF b = <<>> THEN FALSE
    ELSE IF a[1] = b[1] THEN StrLe(Tail(a), Tail(b))
    ELSE Byte(a[1]) < Byte(b[1])

StartsWith(s, pat) == Len(pat) <= Len(s) /\ SubSeq(s, 1, Len(pat)) = pat
Drop(s, n) == SubSeq(s, n + 1, Len(s))

\* str::find: index of the first match of pat in s, 0 when there is none.
RECURSIVE FindFrom(_, _, _)
FindFrom(s, pat, k) ==
    IF k + Len(pat) - 1 > Len(s) THEN 0
    ELSE IF SubSeq(s, k, k + Len(pat) - 1) = pat THEN k
    ELSE FindFrom(s, pat, k + 1)
Find(s, pat) == FindFrom(s, pat, 1)
Contains(s, pat) == Find(s, pat) # 0

\* str::split(pat).collect(): the parts between the matches of pat, found
\* left to right without overlap.
RECURSIVE Split(_, _)
Split(s, pat) ==
    LET k == Find(s, pat) IN
    IF k = 0 THEN <<s>>
    ELSE <<SubSeq(s, 1, k - 1)>> \o Split(Drop(s, k + Len(pat) - 1), pat)

\* str::trim_start, str::trim_end, str::trim.
RECURSIVE TrimStart(_)
TrimStart(s) == IF s # <<>> /\ IsWhitespace(s[1]) THEN TrimStart(Tail(s)) ELSE s
RECURSIVE TrimEnd(_)
TrimEnd(s) ==
    IF s # <<>> /\ IsWhitespace(s[Len(s)]) THEN TrimEnd(SubSeq(s, 1, Len(s) - 1)) ELSE s
Trim(s) == TrimEnd(TrimStart(s))

\* str::replace(pat, with).
RECURSIVE Replace(_, _, _)
Replace(s, pat, with) ==
    LET k == Find(s, pat) IN
    IF k = 0 THEN s
    ELSE SubSeq(s, 1, k - 1) \o with \o Replace(Drop(s, k + Len(pat) - 1), pat, with)

\* str::lines().collect(): split at "\n", a final empty line is not a line.
Lines(s) ==
    LET parts == Split(s, <<"\n">>) IN
    IF parts[Len(parts)] = <<>> THEN SubSeq(parts, 1, Len(parts) - 1) ELSE parts

\* str::split_whitespace().collect().
RECURSIVE SplitWhitespace(_)
SplitWhitespace(s) ==
    LET t == TrimStart(s)
        ends == {k \in 1..Len(t) : IsWhitespace(t[k])}
        stop == IF ends = {} THEN Len(t) + 1
                ELSE CHOOSE k \in ends : \A j \in ends : k <= j IN
    IF t = <<>> THEN <<>>
    ELSE <<SubSeq(t, 1, stop - 1)>> \o SplitWhitespace(Drop(t, stop - 1))

\* str::trim_end_matches(c).
RECURSIVE TrimEndMatches(_, _)
TrimEndMatches(s, c) ==
    IF s # <<>> /\ s[Len(s)] = c THEN TrimEndMatches(SubSeq(s, 1, Len(s) - 1), c) ELSE s

\* str::trim_start_matches(pat).
RECURSIVE TrimStartMatches(_, _)
TrimStartMatches(s, pat) ==
    IF pat # <<>> /\ StartsWith(s, pat) THEN TrimStartMatches(Drop(s, Len(pat)), pat) ELSE s

\* iterator.next().unwrap_or(default) and iterator.nth(n).unwrap_or(default).
NthOr(seq, n, default) == IF Len(seq) >= n + 1 THEN seq[n + 1] ELSE default

(***************************************************************************)
(* is_version_compatible (main.rs 59-79).                                  *)
(***************************************************************************)
\* The same function with the required version left untrimmed.
is_version_compatible_untrimmed(installed, required) ==
    IF Contains(required, <<"=", "=">>)
    THEN LET parts == Split(required, <<"=", "=">>) IN
         IF Len(parts) = 2 THEN installed = parts[2] ELSE FALSE
    ELSE IF Contains(required, <<">", "=">>)
    THEN LET parts == Split(required, <<">", "=">>) IN
         IF Len(parts) = 2 THEN StrLe(parts[2], installed) ELSE FALSE
    ELSE installed = required

\* The same function accepting every version for a specifier without
\* "==" and ">=".
is_version_compatible_lenient(installed, required) ==
    IF Contains(required, <<"=", "=">>)
    THEN LET parts == Split(required, <<"=", "=">>) IN
         IF Len(parts) = 2 THEN installed = Trim(parts[2]) ELSE FALSE
    ELSE IF Contains(required, <<">", "=">>)
    THEN LET parts == Split(required, <<">", "=">>) IN
         IF Len(parts) = 2 THEN StrLe(Trim(parts[2]), installed) ELSE FALSE
    ELSE TRUE

is_version_compatible(installed, required) ==
    IF Contains(required, <<"=", "=">>)
    THEN LET parts == Split(required, <<"=", "=">>) IN
         IF Len(parts) = 2 THEN installed = Trim(parts[2]) ELSE FALSE
    ELSE IF Contains(required, <<">", "=">>)
    THEN LET parts == Split(required, <<">", "=">>) IN
         IF Len(parts) = 2 THEN StrLe(Trim(parts[2]), installed) ELSE FALSE
    ELSE installed = required

\* Option<Result<(), String>> values.
NoResult == "None"
OkResult == "Ok(())"
ErrCancelledByUser == "Err(Installation cancelled by user.)"
ErrCancelledUi == "Err(Installation cancelled.)"
ErrUnsupportedPlatform == "Err(C/C++ (MinGW-w64) installation via this installer is only supported on Windows.)"
ErrVerification == "Err(verification failed.)"
ErrVersionMismatch == "Err(Python version mismatch)"
ErrOther == "Err(other)"

\* LanguageState::default (the fields the model follows).
LanguageStateDefault == [is_installing |-> FALSE, install_result |-> NoResult]

\* Positions of a background thread inside run_installation_logic, then in
\* the completion closure, then finished.
RunningPcs == {"resolve", "idempotency", "send_request", "download_poll",
               "download_read", "create_versions_dir", "rustup_write",
               "rustup_run", "rustup_cleanup", "open_archive", "extract_poll",
               "extract_write", "normalize", "configure_env", "verify"}
DownloadLoopPcs == {"download_poll", "download_read"}
ExtractLoopPcs == {"extract_poll", "extract_write"}

\* The thread spawned by the Install handler: the clones it captures and
\* the locals of run_installation_logic.
NewThread(vendor) ==
    [vendor |-> vendor,
     cancel |-> vendor,         \* Arc clone: the AtomicBool of that vendor's LanguageState
     pc |-> "resolve",
     downloaded |-> 0,          \* chunks appended to buffer
     total_files |-> 0,         \* entries of the archive
     i |-> 0,                   \* entries written under the install path
     result |-> NoResult]

\* Auxiliary record of a thread's run: when its flag was stored true and
\* what the run did afterwards.  No action reads it.
NewHistory ==
    [cancel_in_download |-> FALSE,   \* flag stored true while in the download loop
     cancel_mid_extract |-> FALSE,   \* ... after the first entry started, before the last was written
     cancel_in_extract |-> FALSE,    \* ... while in the entry loop
     chunks_after |-> 0,             \* chunks read since cancel_in_download
     entries_after |-> 0,            \* entries written since cancel_in_extract
     extraction_after |-> FALSE,     \* an extraction step ran after cancel_in_download
     completion_after |-> FALSE]     \* normalization, environment or verification ran after cancel_mid_extract

ExtractionSteps == {"extract_write", "rustup_write", "rustup_run"}
CompletionSteps == {"normalize", "configure_env", "verify"}

\* The auxiliary record after thread t performed step.
Performed(t, step) ==
    [history EXCEPT
        ![t].chunks_after = IF step = "download_read" /\ history[t].cancel_in_download
                            THEN @ + 1 ELSE @,
        ![t].entries_after = IF step = "extract_write" /\ history[t].cancel_in_extract
                             THEN @ + 1 ELSE @,
        ![t].extraction_after = @ \/ (history[t].cancel_in_download /\ step \in ExtractionSteps),
        ![t].completion_after = @ \/ (history[t].cancel_mid_extract /\ step \in CompletionSteps)]

ThreadIds == 1..Len(threads)
IsRunning(th) == th.pc \in RunningPcs
RunningOf(vendor) == {t \in ThreadIds : threads[t].vendor = vendor /\ IsRunning(threads[t])}

(***************************************************************************)
(* The foreground thread: one action per frame of update() with one input. *)
(***************************************************************************)
\* main.rs 1377-1380, executed for the selected tab in every frame.
DefensiveReset(states, vendor) ==
    IF states[vendor].install_result # NoResult /\ states[vendor].is_installing
    THEN [states EXCEPT ![vendor].is_installing = FALSE]
    ELSE states

\* Side panel: a tab is selected.
SelectVendor(v) ==
    /\ v # selected_vendor
    /\ selected_vendor' = v
    /\ language_states' = DefensiveReset(language_states, v)
    /\ UNCHANGED <<show_cancel_confirmation, stored_states, cancel_requested,
                   threads, history>>

\* The Install button, enabled while !is_installing, is clicked.
InstallClicked ==
    LET states == DefensiveReset(language_states, selected_vendor) IN
    /\ Len(threads) < MaxRuns
    /\ ~states[selected_vendor].is_installing
    /\ language_states' = [states EXCEPT ![selected_vendor] =
                              [is_installing |-> TRUE, install_result |-> NoResult]]
    /\ cancel_requested' = [cancel_requested EXCEPT ![selected_vendor] = FALSE]
    /\ threads' = Append(threads, NewThread(selected_vendor))
    /\ history' = Append(history, NewHistory)
    /\ UNCHANGED <<selected_vendor, show_cancel_confirmation, stored_states>>

\* The Cancel Installation button, shown while is_installing, is clicked.
CancelInstallationClicked ==
    LET states == DefensiveReset(language_states, selected_vendor) IN
    /\ states[selected_vendor].is_installing
    /\ ~show_cancel_confirmation
    /\ show_cancel_confirmation' = TRUE
    /\ language_states' = states
    /\ UNCHANGED <<selected_vendor, stored_states, cancel_requested, threads, history>>

\* What a store of true into vendor's flag means for the running threads
\* that read it (auxiliary bookkeeping, no program state).
RecordCancel(h, vendor) ==
    [t \in DOMAIN h |->
        LET th == threads[t] IN
        IF th.cancel # vendor THEN h[t]
        ELSE [h[t] EXCEPT
                !.cancel_in_download = @ \/ th.pc \in DownloadLoopPcs,
                !.cancel_in_extract = @ \/ th.pc \in ExtractLoopPcs,
                !.cancel_mid_extract = @ \/ (/\ th.pc \in ExtractLoopPcs
                                             /\ th.i < th.total_files
                                             /\ (th.i > 0 \/ th.pc = "extract_write"))]]

\* "Yes, stop" in the cancel confirmation window.
ConfirmYesStop ==
    LET states == DefensiveReset(language_states, selected_vendor) IN
    /\ show_cancel_confirmation
    /\ cancel_requested' = [cancel_requested EXCEPT ![selected_vendor] = TRUE]
    /\ language_states' = [states EXCEPT ![selected_vendor] =
                              [is_installing |-> FALSE, install_result |-> ErrCancelledUi]]
    /\ show_cancel_confirmation' = FALSE
    /\ history' = RecordCancel(history, selected_vendor)
    /\ UNCHANGED <<selected_vendor, stored_states, threads>>

\* "No, continue" in the cancel confirmation window.
ConfirmNoContinue ==
    /\ show_cancel_confirmation
    /\ show_cancel_confirmation' = FALSE
    /\ language_states' = DefensiveReset(language_states, selected_vendor)
    /\ UNCHANGED <<selected_vendor, stored_states, cancel_requested, threads, history>>

(***************************************************************************)
(* A background thread: run_installation_logic, step by step.              *)
(***************************************************************************)
UiUnchanged == UNCHANGED <<selected_vendor, show_cancel_confirmation, language_states,
                           stored_states, cancel_requested>>
Goto(t, pc) == threads' = [threads EXCEPT ![t].pc = pc]
\* return <result> from run_installation_logic: its locals are dropped and
\* the closure continues.
Return(t, result) ==
    threads' = [threads EXCEPT ![t] =
                   [NewThread(threads[t].vendor) EXCEPT !.pc = "returned", !.result = result]]

\* 214-537: platform detection and the vendor's resolution (HTTP metadata calls).
Resolve(t) ==
    /\ threads[t].pc = "resolve"
    /\ \/ Goto(t, "idempotency")
       \/ Return(t, ErrOther)
    /\ UNCHANGED history /\ UiUnchanged

\* 540-617: the idempotency check; it may short-circuit with success.
IdempotencyCheck(t) ==
    /\ threads[t].pc = "idempotency"
    /\ \/ Goto(t, "send_request")
       \/ Return(t, OkResult)
    /\ UNCHANGED history /\ UiUnchanged

\* 626-631: the archive request is sent.
SendRequest(t) ==
    /\ threads[t].pc = "send_request"
    /\ \/ Goto(t, "download_poll")
       \/ Return(t, ErrOther)
    /\ UNCHANGED history /\ UiUnchanged

\* 635-641: top of the download loop, the flag is loaded.
DownloadPoll(t) ==
    /\ threads[t].pc = "download_poll"
    /\ IF cancel_requested[threads[t].cancel]
       THEN Return(t, ErrCancelledByUser)
       ELSE Goto(t, "download_read")
    /\ UNCHANGED history /\ UiUnchanged

\* 642-659: one read of the response body.
DownloadRead(t) ==
    /\ threads[t].pc = "download_read"
    /\ \/ /\ Goto(t, "create_versions_dir")                     \* Ok(0)
          /\ UNCHANGED history
       \/ /\ threads[t].downloaded < MaxChunks                  \* Ok(n)
          /\ threads' = [threads EXCEPT ![t].pc = "download_poll",
                                        ![t].downloaded = @ + 1]
          /\ history' = Performed(t, "download_read")
       \/ /\ Return(t, ErrOther)                                \* Err(e)
          /\ UNCHANGED history
    /\ UiUnchanged

\* 662-671, 732-733: the versions directory, then the branch on the vendor.
CreateVersionsDir(t) ==
    /\ threads[t].pc = "create_versions_dir"
    /\ \/ Goto(t, IF threads[t].vendor = "rust" THEN "rustup_write" ELSE "open_archive")
       \/ Return(t, ErrOther)
    /\ UNCHANGED history /\ UiUnchanged

\* 674-691: rustup-init is written into the install root.
RustupWrite(t) ==
    /\ threads[t].pc = "rustup_write"
    /\ \/ /\ Goto(t, "rustup_run")
          /\ history' = Performed(t, "rustup_write")
       \/ /\ Return(t, ErrOther)
          /\ UNCHANGED history
    /\ UiUnchanged

\* 693-724: rustup-init is executed and runs to its own completion.
RustupRun(t) ==
    /\ threads[t].pc = "rustup_run"
    /\ \/ /\ Goto(t, "rustup_cleanup")                           \* status.success()
          /\ history' = Performed(t, "rustup_run")
       \/ /\ Return(t, ErrOther)                                 \* exit status not 0
          /\ history' = Performed(t, "rustup_run")
       \/ /\ Return(t, ErrOther)                                 \* failed to start
          /\ UNCHANGED history
    /\ UiUnchanged

\* 726-730: rustup-init is removed.
RustupCleanup(t) ==
    /\ threads[t].pc = "rustup_cleanup"
    /\ \/ Goto(t, "configure_env")
       \/ Return(t, ErrOther)
    /\ UNCHANGED history /\ UiUnchanged

\* 733-737, 774-788: the archive is opened over the downloaded bytes.
OpenArchive(t) ==
    /\ threads[t].pc = "open_archive"
    /\ \/ \E n \in 0..MaxEntries :
             threads' = [threads EXCEPT ![t].pc = "extract_poll", ![t].total_files = n]
       \/ Return(t, ErrOther)
    /\ UNCHANGED history /\ UiUnchanged

\* 739-746, 790-797: top of the entry loop: next entry, then the flag is loaded.
ExtractPoll(t) ==
    /\ threads[t].pc = "extract_poll"
    /\ IF threads[t].i = threads[t].total_files
       THEN Goto(t, "normalize")
       ELSE IF cancel_requested[threads[t].cancel]
            THEN Return(t, ErrCancelledByUser)
            ELSE Goto(t, "extract_write")
    /\ UNCHANGED history /\ UiUnchanged

\* 747-771, 798-823: one entry is written under the install path.
ExtractWrite(t) ==
    /\ threads[t].pc = "extract_write"
    /\ \/ /\ threads' = [threads EXCEPT ![t].pc = "extract_poll", ![t].i = @ + 1]
          /\ history' = Performed(t, "extract_write")
       \/ /\ Return(t, ErrOther)
          /\ UNCHANGED history
    /\ UiUnchanged

\* 827-857: the contents of the top-level directory are moved up.
Normalize(t) ==
    /\ threads[t].pc = "normalize"
    /\ \/ /\ Goto(t, "configure_env")
          /\ history' = Performed(t, "normalize")
       \/ /\ Return(t, ErrOther)
          /\ UNCHANGED history
    /\ UiUnchanged

\* 861-908: process environment variables.
ConfigureEnv(t) ==
    /\ threads[t].pc = "configure_env"
    /\ Goto(t, "verify")
    /\ history' = Performed(t, "configure_env")
    /\ UiUnchanged

\* 911-1216: the installed executable is asked for its version (for
\* Python the pip bootstrap and the libraries follow); the run returns.
Verify(t) ==
    /\ threads[t].pc = "verify"
    /\ \/ Return(t, OkResult)
       \/ Return(t, ErrOther)
    /\ history' = Performed(t, "verify")
    /\ UiUnchanged

\* 1459-1476: the closure stores the outcome in the app found in the egui
\* data, and the thread ends.
Complete(t) ==
    /\ threads[t].pc = "returned"
    /\ stored_states' = [stored_states EXCEPT ![threads[t].vendor] =
                            [is_installing |-> FALSE, install_result |-> threads[t].result]]
    /\ Goto(t, "finished")
    /\ history' = [history EXCEPT ![t] = NewHistory]
    /\ UNCHANGED <<selected_vendor, show_cancel_confirmation, language_states,
                   cancel_requested>>

(***************************************************************************)
(* Specification of the front-end with its background threads.             *)
(***************************************************************************)
\* JdkInstallerApp::new, twice (main.rs 1702, 1705).
UiInit ==
    /\ selected_vendor = "azul"
    /\ show_cancel_confirmation = FALSE
    /\ language_states = [v \in TabVendors |-> LanguageStateDefault]
    /\ stored_states = [v \in TabVendors |-> LanguageStateDefault]
    /\ cancel_requested = [v \in TabVendors |-> FALSE]
    /\ threads = <<>>
    /\ history = <<>>

\* No call of is_version_compatible is followed.
CompatIdle ==
    /\ installed_version = <<>>
    /\ required_specifier = <<>>
    /\ compat_called = FALSE
    /\ compat_result = FALSE

\* No extraction is followed.
ExtractIdle ==
    /\ archive = <<>>
    /\ fs = [dirs |-> {}, files |-> {}]
    /\ extracted_top_level_dir_name = <<>>
    /\ entry_index = 0
    /\ moved = {}
    /\ extract_pc = "done"

\* No sequence of runs is followed.
NoRun == [found_installed |-> FALSE, probe_failed |-> FALSE, downloaded |-> FALSE,
          result |-> NoResult,
          url |-> [ok |-> FALSE, text |-> ""],   \* download_url of the resolution
          requests |-> {},                        \* HTTP requests the run has sent
          fs_written |-> FALSE,                   \* the run created or wrote a file or directory
          env_set |-> FALSE,                      \* the run called env::set_var
          reported |-> <<>>,                      \* the fractions the run passed to update_app_state
          steps |-> <<>>]                         \* the steps the run has executed, in order
RunsIdle ==
    /\ request = [vendor |-> "azul", version |-> <<>>, install_latest |-> FALSE]
    /\ machine = [os |-> "linux"]
    /\ disk = [path_exists |-> FALSE, exe_exists |-> FALSE]
    /\ run_no = 0
    /\ run_pc = "returned"
    /\ run = NoRun
    /\ first_run = NoRun

\* An f32 progress value, kept exact as numerator and denominator.
Fraction(n, d) == <<n, d>>
Zero == Fraction(0, 1)
One == Fraction(1, 1)

\* A line of the log that reports progress; its text is left out.
Line == "..."

\* LanguageState::default with every field the interface draws.  output_log
\* is the content of the String behind this state's own Arc<Mutex<String>>,
\* one element per pushed line: Line or the text of a failure line.
FullLanguageStateDefault ==
    [output_log |-> <<>>,
     is_installing |-> FALSE,
     install_result |-> NoResult,
     download_progress |-> Zero,
     extract_progress |-> Zero,
     current_status |-> "Ready for installation"]

\* What update() draws from the LanguageState it reads: status and bars
\* while is_installing, else the result, and always the log.
Draw(s) ==
    [installing |-> s.is_installing,
     status |-> IF s.is_installing THEN s.current_status ELSE "",
     download |-> IF s.is_installing THEN s.download_progress ELSE Zero,
     extract |-> IF s.is_installing THEN s.extract_progress ELSE Zero,
     result |-> IF s.is_installing THEN NoResult ELSE s.install_result,
     log |-> s.output_log]

\* main(): both JdkInstallerApp::new objects start from the defaults.
StatesInit ==
    /\ ui_state = FullLanguageStateDefault
    /\ stored_state = FullLanguageStateDefault
    /\ cancel_flag = FALSE
    /\ cancel_dialog = FALSE
    /\ workers = <<>>

\* A run about to be checked for an existing installation; both fractions
\* are 0.0 from LanguageState::default and from the Install handler.
ProgressInit ==
    /\ job_pc = "idempotency"
    /\ job = [archive |-> "zip",           \* extension of the package name
              total_size |-> 0,            \* content_length().unwrap_or(0)
              body_bytes |-> 0,            \* bytes the body delivers before end of stream
              downloaded_bytes |-> 0,
              total_files |-> 0,           \* entries of the archive
              entries_processed |-> 0]
    /\ progress = [download_progress |-> Zero, extract_progress |-> Zero]

\* A Python run that has not reached verification.
NoPip(os, python_libraries) ==
    [os |-> os,
     python_libraries |-> python_libraries,   \* the text of the libraries field
     libraries |-> <<>>,                      \* the lib_spec list once it is computed
     lib |-> 0,                               \* index of the library being handled
     bootstrap |-> "none",                    \* how the pip bootstrap went
     installed_lib_version |-> <<>>,
     events |-> <<>>,                         \* the steps executed so far, in order
     result |-> NoResult]
PipIdle ==
    /\ pip_pc = "returned"
    /\ pip = NoPip("linux", <<>>)

\* No run is in the environment step.
EnvIdle ==
    /\ env_os = "linux"
    /\ process_env = <<>>
    /\ env_runs = <<>>

\* No thread takes a mutex.
LocksIdle ==
    /\ lock_owner = <<>>
    /\ lock_threads = <<>>
    /\ lock_orders = {}

\* No run is followed file by file.
TaskIdle ==
    /\ task_pc = "returned"
    /\ task = <<>>

Init == UiInit /\ CompatIdle /\ ExtractIdle /\ RunsIdle /\ StatesInit /\ ProgressInit /\ PipIdle /\ EnvIdle /\ LocksIdle /\ TaskIdle

Next ==
    \/ (\E v \in TabVendors : SelectVendor(v)) /\ UNCHANGED notUiVars
    \/ (InstallClicked) /\ UNCHANGED notUiVars
    \/ (CancelInstallationClicked) /\ UNCHANGED notUiVars
    \/ (ConfirmYesStop) /\ UNCHANGED notUiVars
    \/ (ConfirmNoContinue) /\ UNCHANGED notUiVars
    \/ (\E t \in ThreadIds : Resolve(t)) /\ UNCHANGED notUiVars
    \/ (\E t \in ThreadIds : IdempotencyCheck(t)) /\ UNCHANGED notUiVars
    \/ (\E t \in ThreadIds : SendRequest(t)) /\ UNCHANGED notUiVars
    \/ (\E t \in ThreadIds : DownloadPoll(t)) /\ UNCHANGED notUiVars
    \/ (\E t \in ThreadIds : DownloadRead(t)) /\ UNCHANGED notUiVars
    \/ (\E t \in ThreadIds : CreateVersionsDir(t)) /\ UNCHANGED notUiVars
    \/ (\E t \in ThreadIds : RustupWrite(t)) /\ UNCHANGED notUiVars
    \/ (\E t \in ThreadIds : RustupRun(t)) /\ UNCHANGED notUiVars
    \/ (\E t \in ThreadIds : RustupCleanup(t)) /\ UNCHANGED notUiVars
    \/ (\E t \in ThreadIds : OpenArchive(t)) /\ UNCHANGED notUiVars
    \/ (\E t \in ThreadIds : ExtractPoll(t)) /\ UNCHANGED notUiVars
    \/ (\E t \in ThreadIds : ExtractWrite(t)) /\ UNCHANGED notUiVars
    \/ (\E t \in ThreadIds : Normalize(t)) /\ UNCHANGED notUiVars
    \/ (\E t \in ThreadIds : ConfigureEnv(t)) /\ UNCHANGED notUiVars
    \/ (\E t \in ThreadIds : Verify(t)) /\ UNCHANGED notUiVars
    \/ (\E t \in ThreadIds : Complete(t)) /\ UNCHANGED notUiVars

Spec == Init /\ [][Next]_vars

(***************************************************************************)
(* Properties of the front-end with its background threads (Spec).         *)
(***************************************************************************)

\* C1: for each vendor at most one background thread is executing
\* run_installation_logic at any time.
C1_AtMostOneRunPerVendor ==
    \A v \in TabVendors : Cardinality(RunningOf(v)) <= 1

\* C2: the cancellation flag a run reads only changes from false to true
\* while the run's thread is executing (no step stores false into a flag
\* that is true and read by an executing run), and no two executing runs
\* read the same flag object.
C2_FlagSetOncePerRun ==
    /\ [][\A t \in ThreadIds :
             (IsRunning(threads[t]) /\ cancel_requested[threads[t].cancel])
                => cancel_requested'[threads[t].cancel]]_vars
    /\ [](\A t1, t2 \in ThreadIds :
             (t1 < t2 /\ IsRunning(threads[t1]) /\ IsRunning(threads[t2]))
                => threads[t1].cancel # threads[t2].cancel)

\* C3: a run whose flag was set after the archive request was sent and
\* before the download loop read end-of-stream performs no extraction step
\* (no entry written, rustup-init neither written nor executed) and does
\* not return success.  (A return with an I/O error is let through here:
\* the statement checked is implied by the claim.)
C3_CancelMidDownloadStopsRun ==
    \A t \in ThreadIds :
        history[t].cancel_in_download =>
            /\ ~history[t].extraction_after
            /\ threads[t].pc = "returned" => threads[t].result # OkResult

\* C4: a run whose flag was set while extraction was in progress (first
\* entry started, last entry not yet written) performs no normalization,
\* environment configuration or verification and never returns success.
C4_CancelMidExtractionStopsRun ==
    \A t \in ThreadIds :
        history[t].cancel_mid_extract =>
            /\ ~history[t].completion_after
            /\ threads[t].pc = "returned" => threads[t].result # OkResult

\* C5: once the flag was set during the download loop the run reads at most
\* one further chunk, and once it was set during extraction the run writes
\* at most one further entry.
C5_BoundedCancelLatency ==
    \A t \in ThreadIds :
        /\ history[t].chunks_after <= 1
        /\ history[t].entries_after <= 1

(***************************************************************************)
(* SpecCompat: is_version_compatible on bounded strings.                   *)
(***************************************************************************)
StringsUpTo(alphabet, n) == UNION {[1..k -> alphabet] : k \in 0..n}

\* The documented examples (spec section 8, comment at main.rs 69-71).
V_3_12_4 == <<"3", ".", "1", "2", ".", "4">>
V_1_10_0 == <<"1", ".", "1", "0", ".", "0">>
Eq_3_12_4 == <<"=", "=", "3", ".", "1", "2", ".", "4">>
Eq_3_12_5 == <<"=", "=", "3", ".", "1", "2", ".", "5">>
Ge_3_12_0 == <<">", "=", "3", ".", "1", "2", ".", "0">>
Ge_1_2_0 == <<">", "=", "1", ".", "2", ".", "0">>
CompatExamples == {<<V_3_12_4, Eq_3_12_4>>, <<V_3_12_4, Eq_3_12_5>>,
                   <<V_3_12_4, Ge_3_12_0>>, <<V_1_10_0, Ge_1_2_0>>}

CompatInputs ==
    (StringsUpTo({"1", "2", "="}, MaxInstalledLen)
        \X StringsUpTo({"1", "2", " ", "=", ">"}, MaxRequiredLen))
    \cup CompatExamples

CompatInit ==
    /\ \E input \in CompatInputs :
          /\ installed_version = input[1]
          /\ required_specifier = input[2]
    /\ compat_called = FALSE
    /\ compat_result = FALSE

CallIsVersionCompatible ==
    /\ ~compat_called
    /\ compat_called' = TRUE
    /\ compat_result' = is_version_compatible(installed_version, required_specifier)
    /\ UNCHANGED <<installed_version, required_specifier>>

InitCompat == CompatInit /\ UiInit /\ ExtractIdle /\ RunsIdle /\ StatesInit /\ ProgressInit /\ PipIdle /\ EnvIdle /\ LocksIdle /\ TaskIdle
NextCompat == CallIsVersionCompatible /\ UNCHANGED notCompatVars
SpecCompat == InitCompat /\ [][NextCompat]_vars

\* The text after the first occurrence of op in s.
RightOperand(s, op) == Drop(s, Find(s, op) + Len(op) - 1)

\* C8 as stated: with `==` in the requirement, equality with the right-hand
\* operand; else with `>=`, installed >= the right-hand operand; else
\* equality with the whole requirement.
C8_CompatibleAsStated ==
    compat_called =>
        compat_result =
            IF Contains(required_specifier, <<"=", "=">>)
            THEN installed_version = RightOperand(required_specifier, <<"=", "=">>)
            ELSE IF Contains(required_specifier, <<">", "=">>)
            THEN StrLe(RightOperand(required_specifier, <<">", "=">>), installed_version)
            ELSE installed_version = required_specifier

\* C8 amended: the right-hand operand is compared with its surrounding
\* whitespace removed, and a requirement in which the operator occurs again
\* after its first occurrence is never satisfied.  The four documented
\* examples have the documented values.
C8_Compatible ==
    compat_called =>
        /\ compat_result =
             IF Contains(required_specifier, <<"=", "=">>)
             THEN LET rhs == RightOperand(required_specifier, <<"=", "=">>) IN
                  ~Contains(rhs, <<"=", "=">>) /\ installed_version = Trim(rhs)
             ELSE IF Contains(required_specifier, <<">", "=">>)
             THEN LET rhs == RightOperand(required_specifier, <<">", "=">>) IN
                  ~Contains(rhs, <<">", "=">>) /\ StrLe(Trim(rhs), installed_version)
             ELSE installed_version = required_specifier
        /\ <<installed_version, required_specifier>> \in CompatExamples =>
             compat_result = (required_specifier \in {Eq_3_12_4, Ge_3_12_0})

\* is_version_compatible returned true for a requirement whose operand is
\* written after a space.
C8_Witness ==
    /\ compat_called
    /\ compat_result
    /\ required_specifier = <<">", "=", " ", "1">>
    /\ installed_version = <<"2">>

(***************************************************************************)
(* SpecExtract: the entry loop and the top-level directory normalization.  *)
(* Paths are sequences of components as PathBuf::join(install path, name)  *)
(* keeps them: relative to the install path, with ".." for the directory   *)
(* above and a first component "/" for an absolute name, which replaces    *)
(* the install path.  The file system is the set of directories and the    *)
(* set of files named that way.                                            *)
(***************************************************************************)
Exists(f, path) == path \in f.dirs \cup f.files
IsPrefix(p, q) == Len(p) <= Len(q) /\ SubSeq(q, 1, Len(p)) = p
\* path itself and every directory above it, below the install path.
Ancestors(path) == {SubSeq(path, 1, k) : k \in 1..Len(path)}
Parent(path) == SubSeq(path, 1, Len(path) - 1)
Children(f, dir) == {q \in f.dirs \cup f.files : Len(q) = Len(dir) + 1 /\ IsPrefix(dir, q)}

\* fs::create_dir_all(install path joined with path).
create_dir_all(f, path) ==
    IF Ancestors(path) \cap f.files # {}
    THEN [ok |-> FALSE, fs |-> f]
    ELSE [ok |-> TRUE, fs |-> [f EXCEPT !.dirs = @ \cup Ancestors(path)]]

\* File::create and io::copy: the file is created or truncated.
File_create(f, path) ==
    IF path \in f.dirs \/ path = <<>>
    THEN [ok |-> FALSE, fs |-> f]
    ELSE [ok |-> TRUE, fs |-> [f EXCEPT !.files = @ \cup {path}]]

\* fs::rename(from, to) with rename(2) semantics: a file replaces a file, a
\* directory replaces an empty directory, everything below from moves along.
Rebase(q, from, to) == to \o Drop(q, Len(from))
fs_rename(f, from, to) ==
    LET clash == \/ (from \in f.files /\ to \in f.dirs)
                 \/ (from \in f.dirs /\ to \in f.files)
                 \/ (from \in f.dirs /\ to \in f.dirs /\ Children(f, to) # {})
                 \/ IsPrefix(from, to)
        under(set) == {q \in set : IsPrefix(from, q)}
    IN
    IF clash \/ ~Exists(f, from)
    THEN [ok |-> FALSE, fs |-> f]
    ELSE [ok |-> TRUE,
          fs |-> [dirs |-> ((f.dirs \ under(f.dirs)) \ {to})
                              \cup {Rebase(q, from, to) : q \in under(f.dirs)},
                  files |-> ((f.files \ under(f.files)) \ {to})
                              \cup {Rebase(q, from, to) : q \in under(f.files)}]]

\* fs::remove_dir: only an empty directory is removed.
fs_remove_dir(f, path) ==
    IF path \notin f.dirs \/ Children(f, path) # {}
    THEN [ok |-> FALSE, fs |-> f]
    ELSE [ok |-> TRUE, fs |-> [f EXCEPT !.dirs = @ \ {path}]]

\* 750-754, 801-805: the top-level component of the first directory entry.
TrackTopLevel(top, entry) ==
    IF top = <<>> /\ entry.is_dir THEN <<entry.name[1]>> ELSE top

\* 756-766, 807-817: the entry is recreated below the install path.
WriteEntry(f, entry) ==
    IF entry.is_dir
    THEN create_dir_all(f, entry.name)
    ELSE LET made == IF Len(entry.name) > 1
                     THEN create_dir_all(f, Parent(entry.name))
                     ELSE [ok |-> TRUE, fs |-> f] IN
         IF made.ok THEN File_create(made.fs, entry.name) ELSE made

\* One iteration of the zip (739-772) or tar (790-824) entry loop.
ExtractEntry ==
    /\ extract_pc = "extract"
    /\ entry_index < Len(archive)
    /\ LET entry == archive[entry_index + 1]
           written == WriteEntry(fs, entry) IN
       /\ extracted_top_level_dir_name' = TrackTopLevel(extracted_top_level_dir_name, entry)
       /\ fs' = written.fs
       /\ IF written.ok
          THEN entry_index' = entry_index + 1 /\ extract_pc' = "extract"
          ELSE entry_index' = entry_index /\ extract_pc' = "failed"
    /\ UNCHANGED <<archive, moved>>

\* 827-843: after the last entry; the directory is looked up when a
\* top-level name was recorded.
BeginNormalization ==
    /\ extract_pc = "extract"
    /\ entry_index = Len(archive)
    /\ extract_pc' = IF /\ extracted_top_level_dir_name # <<>>
                        /\ extracted_top_level_dir_name \in fs.dirs
                     THEN "moving" ELSE "done"
    /\ UNCHANGED <<archive, fs, extracted_top_level_dir_name, entry_index, moved>>

\* 845-850: one entry of read_dir is renamed into the install path.
MoveEntryUp ==
    /\ extract_pc = "moving"
    /\ \E child \in Children(fs, extracted_top_level_dir_name) :
          LET renamed == fs_rename(fs, child, <<child[Len(child)]>>) IN
          /\ fs' = renamed.fs
          /\ moved' = IF renamed.ok THEN moved \cup {child} ELSE moved
          /\ extract_pc' = IF renamed.ok THEN "moving" ELSE "failed"
    /\ UNCHANGED <<archive, extracted_top_level_dir_name, entry_index>>

\* 851-855: read_dir is exhausted, the directory is removed.
RemoveTopLevelDir ==
    /\ extract_pc = "moving"
    /\ Children(fs, extracted_top_level_dir_name) \subseteq
          {extracted_top_level_dir_name \o <<c[Len(c)]>> : c \in moved}
    /\ LET removed == fs_remove_dir(fs, extracted_top_level_dir_name) IN
       /\ fs' = removed.fs
       /\ extract_pc' = IF removed.ok THEN "done" ELSE "failed"
    /\ UNCHANGED <<archive, extracted_top_level_dir_name, entry_index, moved>>

\* The entries an archive of the model can carry.
ArchiveEntries ==
    {[name |-> <<"foo-1.0">>, is_dir |-> TRUE],
     [name |-> <<"foo-1.0", "bin">>, is_dir |-> TRUE],
     [name |-> <<"foo-1.0", "bin", "x">>, is_dir |-> FALSE],
     [name |-> <<"foo-1.0", "foo-1.0">>, is_dir |-> FALSE],
     [name |-> <<"bin">>, is_dir |-> TRUE],
     [name |-> <<"bin", "x">>, is_dir |-> FALSE],
     [name |-> <<"lib", "y">>, is_dir |-> FALSE],
     [name |-> <<"x">>, is_dir |-> FALSE],
     [name |-> <<"..", "x">>, is_dir |-> FALSE],       \* "../x"
     [name |-> <<"/", "x">>, is_dir |-> FALSE]}        \* "/x": join replaces the install path

ExtractInit ==
    /\ archive \in UNION {[1..n -> ArchiveEntries] : n \in 0..MaxArchiveLen}
    /\ fs = [dirs |-> {}, files |-> {}]
    /\ extracted_top_level_dir_name = <<>>
    /\ entry_index = 0
    /\ moved = {}
    /\ extract_pc = "extract"

InitExtract == ExtractInit /\ UiInit /\ CompatIdle /\ RunsIdle /\ StatesInit /\ ProgressInit /\ PipIdle /\ EnvIdle /\ LocksIdle /\ TaskIdle
NextExtract ==
    \/ ExtractEntry /\ UNCHANGED notExtractVars
    \/ BeginNormalization /\ UNCHANGED notExtractVars
    \/ MoveEntryUp /\ UNCHANGED notExtractVars
    \/ RemoveTopLevelDir /\ UNCHANGED notExtractVars
SpecExtract == InitExtract /\ [][NextExtract]_vars

\* The top-level components of the archive's entries.
TopLevelNames == {archive[k].name[1] : k \in 1..Len(archive)}
\* Every entry is the directory wrapper itself or lies below it.
AllUnder(wrapper) ==
    /\ archive # <<>>
    /\ \A k \in 1..Len(archive) :
          /\ archive[k].name[1] = wrapper
          /\ Len(archive[k].name) > 1 \/ archive[k].is_dir
\* The layout the archive describes: every entry and the directories above it.
DescribedLayout ==
    [dirs |-> UNION {IF archive[k].is_dir THEN Ancestors(archive[k].name)
                     ELSE Ancestors(archive[k].name) \ {archive[k].name} :
                     k \in 1..Len(archive)},
     files |-> {archive[k].name : k \in 1..Len(archive)} \
                  {archive[k].name : k \in {j \in 1..Len(archive) : archive[j].is_dir}}]

\* C9: when every entry lies under one top-level directory D, then after
\* extraction and normalization every entry D/p exists at p below the
\* install path and D does not exist there.
C9_SingleWrapperFlattened ==
    \A wrapper \in TopLevelNames :
        (extract_pc = "done" /\ AllUnder(wrapper)) =>
            /\ ~Exists(fs, <<wrapper>>)
            /\ \A k \in 1..Len(archive) :
                  Len(archive[k].name) > 1 => Exists(fs, Tail(archive[k].name))

\* C10: contents are moved up and a directory is removed only when that
\* directory is the single top-level wrapper of every entry; with two or
\* more top-level components the layout stays as the archive describes it.
C10_OnlySingleWrapperNormalized ==
    /\ moved # {} => AllUnder(extracted_top_level_dir_name[1])
    /\ (extract_pc = "done" /\ Cardinality(TopLevelNames) >= 2) => fs = DescribedLayout

(***************************************************************************)
(* SpecRuns: consecutive runs for one request on one machine.              *)
(***************************************************************************)
\* String literals of run_installation_logic.
S_Python_ == <<"P", "y", "t", "h", "o", "n", " ">>
S_rustc_ == <<"r", "u", "s", "t", "c", " ">>
S_v == <<"v">>
S_go == <<"g", "o">>
S_go_version_go == <<"g", "o", " ", "v", "e", "r", "s", "i", "o", "n", " ", "g", "o">>
S_openjdk_version_ == <<"o", "p", "e", "n", "j", "d", "k", " ", "v", "e", "r", "s", "i", "o", "n", " ", "\"">>
S_java_version_ == <<"j", "a", "v", "a", " ", "v", "e", "r", "s", "i", "o", "n", " ", "\"">>
S_version == <<"v", "e", "r", "s", "i", "o", "n">>
S_unknown == <<"u", "n", "k", "n", "o", "w", "n">>
S_unknown_rustc_version == <<"u", "n", "k", "n", "o", "w", "n", " ", "r", "u", "s", "t", "c", " ", "v", "e", "r",
      "s", "i", "o", "n">>
S_unknown_gcc_version == <<"u", "n", "k", "n", "o", "w", "n", " ", "g", "c", "c", " ", "v", "e", "r", "s", "i",
      "o", "n">>
S_stable == <<"s", "t", "a", "b", "l", "e">>
S_mingw_version == <<"1", "1", ".", "0", ".", "0">>

JavaVendors == {"azul", "temurin", "openjdk"}
Vendors == JavaVendors \cup {"python", "c_cpp", "rust", "nodejs", "go"}

\* The output of the version command with its prefix left in.
ParseInstalledVersionKeepingPrefix(vendor, stdout, stderr) == Trim(stdout)

\* 567-588 and 975-997: the installed version, from the output of the
\* version command (the two copies of the parsing are the same text).
ParseInstalledVersion(vendor, stdout, stderr) ==
    CASE vendor = "python" -> Replace(Trim(stdout), S_Python_, <<>>)
      [] vendor = "rust" ->
            NthOr(Split(Replace(NthOr(Lines(stdout), 0, S_unknown_rustc_version),
                                S_rustc_, <<>>), <<" ">>), 0, S_unknown)
      [] vendor = "c_cpp" ->
            NthOr(Split(NthOr(Lines(stdout), 0, S_unknown_gcc_version), <<" ">>), 2, S_unknown)
      [] vendor = "nodejs" -> Replace(Trim(stdout), S_v, <<>>)
      [] vendor = "go" ->
            NthOr(SplitWhitespace(Replace(Trim(stdout), S_go_version_go, <<>>)), 0, S_unknown)
      [] OTHER ->
            LET lines == Lines(stderr)
                found == {k \in 1..Len(lines) : Contains(lines[k], S_version)} IN
            IF found = {} THEN S_unknown
            ELSE LET line == lines[CHOOSE k \in found : \A j \in found : k <= j] IN
                 TrimEndMatches(Replace(Replace(line, S_openjdk_version_, <<>>),
                                        S_java_version_, <<>>), "\"")

\* 230-537: actual_download_version of the resolution, <<"Err">> standing
\* for a resolution that returns Err.  data is what the vendor's endpoint
\* answered (python: the newest release; azul: java_version when it is an
\* integer, else empty; nodejs: the href of the LTS link; go: the package
\* file name).
ResolveErr == <<"Err">>
ActualDownloadVersion(req, os, data) ==
    CASE req.vendor = "azul" -> IF data # <<>> THEN data ELSE req.version
      [] req.vendor = "temurin" -> req.version
      [] req.vendor = "openjdk" -> IF req.install_latest THEN ResolveErr ELSE req.version
      [] req.vendor = "python" -> IF req.install_latest THEN data ELSE req.version
      [] req.vendor = "c_cpp" -> IF os # "windows" THEN ResolveErr ELSE S_mingw_version
      [] req.vendor = "rust" -> S_stable
      [] req.vendor = "nodejs" ->
            TrimEndMatches(TrimStartMatches(data, S_v), "/")
      [] req.vendor = "go" ->
            TrimStartMatches(NthOr(Split(data, <<".">>), 0, S_unknown), S_go)

\* 230-537: download_url of the resolution; ok is FALSE where the
\* resolution returns Err.  link is the link the vendor's endpoint answered
\* (found: whether the answer holds one; text: its text).
NoUrl == [ok |-> FALSE, text |-> ""]
Url(text) == [ok |-> TRUE, text |-> text]
DownloadUrl(req, os, data, link) ==
    CASE req.vendor = "azul" ->          \* 297-300: the JSON string, whatever it is
            IF link.found THEN Url(link.text) ELSE NoUrl
      [] req.vendor = "temurin" ->       \* 345-352: package.link of the first asset
            IF link.found THEN Url(link.text) ELSE NoUrl
      [] req.vendor = "openjdk" ->       \* 357-374: an href with the OS name, ending in .zip
            IF req.install_latest \/ ~link.found \/ link.text = "" THEN NoUrl
            ELSE Url(link.text)
      [] req.vendor = "python" ->        \* 383-407
            IF req.install_latest /\ data = <<>> THEN NoUrl
            ELSE Url("https://www.python.org/ftp/python/")
      [] req.vendor = "c_cpp" ->         \* 427-432
            IF os # "windows" THEN NoUrl
            ELSE Url("https://sourceforge.net/projects/mingw-w64/files/")
      [] req.vendor = "rust" ->          \* 445-449
            Url(IF os = "windows" THEN "https://win.rustup.rs/x86_64" ELSE "https://sh.rustup.rs")
      [] req.vendor = "nodejs" ->        \* 479-518
            IF link.found THEN Url("https://nodejs.org/dist/latest-lts/" \o link.text) ELSE NoUrl
      [] req.vendor = "go" ->            \* 153-164
            IF link.found THEN Url("https://go.dev" \o link.text) ELSE NoUrl

\* The same with a request sent for C/C++ as well.
QueriesEndpointAlsoForCpp(req) ==
    \/ req.vendor \in {"azul", "temurin", "nodejs", "go", "c_cpp"}
    \/ req.vendor = "openjdk" /\ ~req.install_latest
    \/ req.vendor = "python" /\ req.install_latest

\* The vendors whose resolution sends an HTTP request to the vendor's endpoint.
QueriesEndpoint(req) ==
    \/ req.vendor \in {"azul", "temurin", "nodejs", "go"}
    \/ req.vendor = "openjdk" /\ ~req.install_latest
    \/ req.vendor = "python" /\ req.install_latest

\* 590-595: the version the idempotency check compares with.
TargetVersionForCheck(req, actual_download_version) ==
    IF req.install_latest THEN actual_download_version ELSE req.version

\* 551-611: is_already_installed.  Command::output() is Ok whenever the
\* process could be started; its exit status is not looked at.
IsAlreadyInstalled(req, d, m) ==
    /\ d.path_exists
    /\ d.exe_exists
    /\ m.spawn_ok
    /\ is_version_compatible(
          ParseInstalledVersion(req.vendor, m.stdout, m.stderr),
          TargetVersionForCheck(req, ActualDownloadVersion(req, m.os, m.data)))

\* The version probe did not execute successfully.
ProbeFailed(d, m) == d.path_exists /\ (~d.exe_exists \/ ~m.spawn_ok \/ ~m.exit_ok)

\* A run that repeats a step that failed.
StepWithRetry(step, r, result, pc) ==
    /\ run' = [r EXCEPT !.steps = Append(@, step),
                        !.result = IF result = OkResult THEN result ELSE NoResult]
    /\ run_pc' = IF result = NoResult THEN pc
                 ELSE IF result = OkResult THEN "returned" ELSE run_pc

\* The run executes step: r is the run's record after it, result its
\* result when it returns from the step and NoResult when it goes on to pc.
Step(step, r, result, pc) ==
    /\ run' = [r EXCEPT !.steps = Append(@, step), !.result = result]
    /\ run_pc' = IF result = NoResult THEN pc ELSE "returned"

\* 214-537: resolution.
RunResolve ==
    /\ run_pc = "resolve"
    /\ LET url == DownloadUrl(request, machine.os, machine.data, machine.link)
           asked == [run EXCEPT !.requests =
                        IF QueriesEndpoint(request) THEN {"vendor"} ELSE {}] IN
       IF request.vendor = "c_cpp" /\ machine.os # "windows"
       THEN Step("resolve", asked, ErrUnsupportedPlatform, "returned")
       ELSE IF ~url.ok
       THEN Step("resolve", asked, ErrOther, "returned")
       ELSE Step("resolve", [asked EXCEPT !.url = url], NoResult, "idempotency")
    /\ UNCHANGED <<request, machine, disk, run_no, first_run>>

\* The check going on to the download whatever it found.
IdempotencyOutcomeProceeding(installed) == NoResult

\* 614-617: if is_already_installed { ...; return Ok(()) }.
IdempotencyOutcome(installed) == IF installed THEN OkResult ELSE NoResult

\* 540-617: the idempotency check; update_app_state(.., Some(1.0), Some(1.0))
\* at 615 when the installation is compatible.
RunIdempotencyCheck ==
    /\ run_pc = "idempotency"
    /\ LET installed == IsAlreadyInstalled(request, disk, machine) IN
       Step("idempotency",
            [run EXCEPT !.found_installed = installed,
                        !.probe_failed = ProbeFailed(disk, machine),
                        !.reported = IF installed THEN Append(@, <<One, One>>) ELSE @],
            IdempotencyOutcome(installed), "download")
    /\ UNCHANGED <<request, machine, disk, run_no, first_run>>

\* 621-660: the download.
RunDownload ==
    /\ run_pc = "download"
    /\ LET sent == [run EXCEPT !.requests = @ \cup {"archive"}] IN
       \/ Step("download", [sent EXCEPT !.downloaded = TRUE], NoResult, "extract")
       \/ Step("download", sent, ErrOther, "returned")
    /\ UNCHANGED <<request, machine, disk, run_no, first_run>>

\* 662-858: rustup-init, or extraction and normalization.
RunExtract ==
    /\ run_pc = "extract"
    /\ \/ /\ disk' = [path_exists |-> TRUE,
                      exe_exists |-> disk.exe_exists \/ machine.delivers_exe]
          /\ Step("extract", [run EXCEPT !.fs_written = TRUE], NoResult, "configure_env")
       \/ /\ disk' = disk
          /\ \E written \in BOOLEAN :
                Step("extract", [run EXCEPT !.fs_written = written], ErrOther, "returned")
    /\ UNCHANGED <<request, machine, run_no, first_run>>

\* 861-908: environment variables of the process (none for Rust).
RunConfigureEnv ==
    /\ run_pc = "configure_env"
    /\ Step("configure_env", [run EXCEPT !.env_set = (request.vendor # "rust")],
            NoResult, "verify")
    /\ UNCHANGED <<request, machine, disk, run_no, first_run>>

\* 911-1019, 1208-1216: verification; for Python the version check
\* against the requested version.
RunVerify ==
    /\ run_pc = "verify"
    /\ LET installed_version_str ==
              ParseInstalledVersion(request.vendor, machine.stdout, machine.stderr) IN
       IF ~disk.exe_exists \/ ~machine.spawn_ok \/ ~machine.exit_ok
       THEN Step("verify", run, ErrVerification, "returned")
       ELSE IF request.vendor = "python"
            THEN IF is_version_compatible(installed_version_str, request.version)
                 THEN Step("verify", run, NoResult, "python_packages")
                 ELSE Step("verify", run, ErrVersionMismatch, "returned")
            ELSE Step("verify", run, OkResult, "returned")
    /\ UNCHANGED <<request, machine, disk, run_no, first_run>>

\* 1021-1206: pip bootstrap and the requested libraries.
RunPythonPackages ==
    /\ run_pc = "python_packages"
    /\ \/ Step("python_packages", [run EXCEPT !.fs_written = TRUE], OkResult, "returned")
       \/ Step("python_packages", run, ErrOther, "returned")
    /\ UNCHANGED <<request, machine, disk, run_no, first_run>>

\* The user starts the same request again; nothing else has changed.
StartNextRun ==
    /\ run_pc = "returned"
    /\ run_no < MaxConsecutiveRuns
    /\ run_no' = run_no + 1
    /\ run_pc' = "resolve"
    /\ run' = NoRun
    /\ first_run' = IF run_no = 1 THEN run ELSE first_run
    /\ UNCHANGED <<request, machine, disk>>

\* Version texts of the requests and of the vendors' data.
V_21 == <<"2", "1">>
V_3_13_0 == <<"3", ".", "1", "3", ".", "0">>
Out_python_3_12_4 == <<"P", "y", "t", "h", "o", "n", " ", "3", ".", "1", "2", ".", "4", "\n">>
Out_python_3_13_0 == <<"P", "y", "t", "h", "o", "n", " ", "3", ".", "1", "3", ".", "0", "\n">>
Out_rustc == <<"r", "u", "s", "t", "c", " ", "1", ".", "7", "9", ".", "0", " ", "(", "1", "2", "9",
      "f", "3", "b", "9", "9", "6", " ", "2", "0", "2", "4", "-", "0", "6", "-", "1",
      "0", ")", "\n">>
Out_gcc_11 == <<"g", "c", "c", ".", "e", "x", "e", " ", "(", "G", "C", "C", ")", " ", "1", "1", ".",
      "0", ".", "0", "\n">>
Out_gcc_mingw == <<"g", "c", "c", ".", "e", "x", "e", " ", "(", "x", "8", "6", "_", "6", "4", "-", "p",
      "o", "s", "i", "x", "-", "s", "e", "h", "-", "r", "e", "v", "0", ",", " ", "B",
      "u", "i", "l", "t", " ", "b", "y", " ", "M", "i", "n", "G", "W", "-", "W", "6",
      "4", " ", "p", "r", "o", "j", "e", "c", "t", ")", " ", "8", ".", "1", ".", "0",
      "\n">>
Out_node == <<"v", "2", "0", ".", "1", "1", ".", "0", "\n">>
Out_go == <<"g", "o", " ", "v", "e", "r", "s", "i", "o", "n", " ", "g", "o", "1", ".", "2", "2",
      ".", "4", " ", "l", "i", "n", "u", "x", "/", "a", "m", "d", "6", "4", "\n">>
Err_java_21 == <<"o", "p", "e", "n", "j", "d", "k", " ", "v", "e", "r", "s", "i", "o", "n", " ", "\"",
      "2", "1", ".", "0", ".", "2", "\"", " ", "2", "0", "2", "4", "-", "0", "1", "-",
      "1", "6", "\n">>
Href_node_lts == <<"v", "2", "0", ".", "1", "1", ".", "0", "-", "l", "t", "s", "/">>
Pkg_go == <<"g", "o", "1", ".", "2", "2", ".", "4", ".", "l", "i", "n", "u", "x", "-", "a", "m",
      "d", "6", "4", ".", "t", "a", "r", ".", "g", "z">>

\* The vendor identifiers, as the characters of the strings.
S_java == <<"j", "a", "v", "a">>
VendorText(vendor) ==
    CASE vendor = "azul" -> <<"a", "z", "u", "l">>
      [] vendor = "temurin" -> <<"t", "e", "m", "u", "r", "i", "n">>
      [] vendor = "openjdk" -> <<"o", "p", "e", "n", "j", "d", "k">>
      [] vendor = "python" -> <<"p", "y", "t", "h", "o", "n">>
      [] vendor = "c_cpp" -> <<"c", "_", "c", "p", "p">>
      [] vendor = "rust" -> <<"r", "u", "s", "t">>
      [] vendor = "nodejs" -> <<"n", "o", "d", "e", "j", "s">>
      [] vendor = "go" -> <<"g", "o">>

\* 1398: self.selected_vendor == "python" || self.selected_vendor.starts_with("java"):
\* the tab shows the checkbox and the version field; the other tabs set
\* install_latest = true in every frame (1415), before the Install handler.
AllowsVersionInput(vendor) ==
    vendor = "python" \/ StartsWith(VendorText(vendor), S_java)

\* 1661-1677: the version JdkInstallerApp::new gives the vendor's config.
DefaultVersion(vendor) ==
    CASE vendor \in JavaVendors -> V_21
      [] vendor = "python" -> V_3_12_4
      [] OTHER -> <<>>

\* Requests the window submits: a tab that allows version input passes the
\* checkbox as it is (the version field keeps the default here); the others
\* pass the default version and install_latest = true.
UiRequests ==
    UNION {[vendor : {vendor}, version : {DefaultVersion(vendor)},
            install_latest : IF AllowsVersionInput(vendor) THEN BOOLEAN ELSE {TRUE}] :
           vendor \in Vendors}

\* What the vendor's endpoint answers and what the vendor's executable prints.
VendorData(vendor) ==
    CASE vendor = "azul" -> {<<>>, V_21}
      [] vendor = "python" -> {<<>>, V_3_12_4, V_3_13_0}
      [] vendor = "nodejs" -> {Href_node_lts}
      [] vendor = "go" -> {Pkg_go}
      [] OTHER -> {<<>>}
VendorOutput(vendor) ==
    CASE vendor = "python" -> {[stdout |-> Out_python_3_12_4, stderr |-> <<>>],
                               [stdout |-> Out_python_3_13_0, stderr |-> <<>>]}
      [] vendor = "rust" -> {[stdout |-> Out_rustc, stderr |-> <<>>]}
      [] vendor = "c_cpp" -> {[stdout |-> Out_gcc_11, stderr |-> <<>>],
                              [stdout |-> Out_gcc_mingw, stderr |-> <<>>]}
      [] vendor = "nodejs" -> {[stdout |-> Out_node, stderr |-> <<>>]}
      [] vendor = "go" -> {[stdout |-> Out_go, stderr |-> <<>>]}
      [] OTHER -> {[stdout |-> <<>>, stderr |-> Err_java_21]}

\* The link to the archive in the answer of the vendor's endpoint.
VendorLinks ==
    {[found |-> FALSE, text |-> ""], [found |-> TRUE, text |-> ""],
     [found |-> TRUE, text |-> "/dl/archive.zip"]}

Machines(vendor) ==
    {[os |-> os, data |-> data, link |-> link, stdout |-> out.stdout, stderr |-> out.stderr,
      spawn_ok |-> spawn, exit_ok |-> exit, delivers_exe |-> exe] :
        os \in {"windows", "linux"}, data \in VendorData(vendor), link \in VendorLinks,
        out \in VendorOutput(vendor), spawn \in BOOLEAN, exit \in BOOLEAN,
        exe \in BOOLEAN}

RunsInit ==
    /\ request \in UiRequests
    /\ machine \in Machines(request.vendor)
    /\ disk \in {[path_exists |-> FALSE, exe_exists |-> FALSE],
                 [path_exists |-> TRUE, exe_exists |-> FALSE],
                 [path_exists |-> TRUE, exe_exists |-> TRUE]}
    /\ run_no = 1
    /\ run_pc = "resolve"
    /\ run = NoRun
    /\ first_run = NoRun

InitRuns == RunsInit /\ UiInit /\ CompatIdle /\ ExtractIdle /\ StatesInit /\ ProgressInit /\ PipIdle /\ EnvIdle /\ LocksIdle /\ TaskIdle
NextRuns ==
    \/ RunResolve /\ UNCHANGED notRunVars
    \/ RunIdempotencyCheck /\ UNCHANGED notRunVars
    \/ RunDownload /\ UNCHANGED notRunVars
    \/ RunExtract /\ UNCHANGED notRunVars
    \/ RunConfigureEnv /\ UNCHANGED notRunVars
    \/ RunVerify /\ UNCHANGED notRunVars
    \/ RunPythonPackages /\ UNCHANGED notRunVars
    \/ StartNextRun /\ UNCHANGED notRunVars
SpecRuns == InitRuns /\ [][NextRuns]_vars

\* C6: when the first run of a request ended in success, the run that
\* follows it finds the installation compatible in the idempotency check,
\* returns success and downloads nothing.
C6_SecondRunShortCircuits ==
    (run_no = 2 /\ run_pc = "returned" /\ first_run.result = OkResult) =>
        /\ run.found_installed
        /\ run.result = OkResult
        /\ ~run.downloaded

\* C7: when the version probe of the idempotency check does not execute
\* successfully (executable missing, process not started, exit status not
\* zero) the check answers NotInstalled and the run goes on to download.
C7_ProbeFailureMeansNotInstalled ==
    (run_pc # "resolve" /\ run_pc # "idempotency" /\ run.probe_failed) =>
        ~run.found_installed

\* C11: a C/C++ request on an OS other than Windows ends in resolution with
\* the unsupported-platform error; the run has sent no HTTP request, has
\* written nothing to the filesystem and has set no environment variable.
C11_CppOffWindowsFailsInResolution ==
    (request.vendor = "c_cpp" /\ machine.os # "windows" /\ run_pc # "resolve") =>
        /\ run_pc = "returned"
        /\ run.result = ErrUnsupportedPlatform
        /\ run.steps = <<"resolve">>
        /\ run.requests = {}
        /\ ~run.fs_written
        /\ ~run.env_set

\* A C/C++ run on Linux has returned from its resolution.
C11_Witness ==
    /\ request.vendor = "c_cpp"
    /\ machine.os = "linux"
    /\ run_pc = "returned"
    /\ run.steps = <<"resolve">>
    /\ run.result = ErrUnsupportedPlatform

\* C12: a run that went past its resolution holds a download URL that is
\* not empty.
C12_ResolvedUrlNotEmpty ==
    (run.steps # <<>> /\ (run_pc # "returned" \/ Len(run.steps) > 1)) =>
        run.url.ok /\ run.url.text # ""

\* C13: the steps a run has executed are an initial stretch of resolve,
\* idempotency check, download, extract (or rustup), environment
\* configuration, verification, Python packages, each once and in that
\* order; a run that has a result has returned, and a returned run
\* executes no further step.
StepOrder == <<"resolve", "idempotency", "download", "extract", "configure_env",
               "verify", "python_packages">>
C13_StepsInFixedOrder ==
    /\ [](/\ Len(run.steps) <= Len(StepOrder)
          /\ \A k \in 1..Len(run.steps) : run.steps[k] = StepOrder[k]
          /\ (run.result # NoResult => run_pc = "returned"))
    /\ [][run.result # NoResult => (run'.steps = run.steps \/ run'.steps = <<>>)]_vars

\* A Python run went through every step and returned success.
C13_Witness ==
    /\ request.vendor = "python"
    /\ run_pc = "returned"
    /\ run.result = OkResult
    /\ run.steps = StepOrder

\* C19: a run that went through verification and returned success parsed,
\* from the output of the installed executable, a version that is compatible
\* with the requested one under is_version_compatible.
C19_SuccessMeansCompatibleVersion ==
    (/\ run_pc = "returned"
     /\ run.result = OkResult
     /\ \E k \in 1..Len(run.steps) : run.steps[k] = "verify") =>
        is_version_compatible(
            ParseInstalledVersion(request.vendor, machine.stdout, machine.stderr),
            TargetVersionForCheck(request,
                ActualDownloadVersion(request, machine.os, machine.data)))

(***************************************************************************)
(* SpecStates: what main() builds and who writes what.  main() creates one *)
(* JdkInstallerApp and stores it in the egui data, then hands eframe a     *)
(* second one made by JdkInstallerApp::new; update() reads and writes the  *)
(* second, update_app_state and the completion closure look up and write   *)
(* the first.  The output_log Arc handed to a thread is the one of the     *)
(* LanguageState update() reads.  One vendor's tab is modelled; the vendor *)
(* installs from an archive.  The byte and entry counts behind a progress  *)
(* value are in SpecProgress; here a reported value is any of Fractions.   *)
(***************************************************************************)
\* Install clicks.
MaxInstalls == 2

Fractions == {Zero, Fraction(1, 2)}

WorkerIds == 1..Len(workers)

\* The thread spawned by the Install handler.
NewWorker ==
    [pc |-> "start",
     chunks |-> 0,       \* chunks read by the download loop
     entries |-> 0,      \* entries written by the entry loop
     result |-> NoResult]

\* update_app_state: every Some argument replaces the field of the stored
\* LanguageState; upd holds the Some arguments.
UpdateAppState(s, upd) ==
    [f \in DOMAIN s |-> IF f \in DOMAIN upd THEN upd[f] ELSE s[f]]

NoUpdate == [f \in {} |-> Zero]

\* One stretch of thread t: it becomes w, pushes msgs to the log it was
\* handed and calls update_app_state with upd (NoUpdate: no call).
WorkerStep(t, w, msgs, upd) ==
    /\ ui_state' = [ui_state EXCEPT !.output_log = @ \o msgs]
    /\ stored_state' = UpdateAppState(stored_state, upd)
    /\ workers' = [workers EXCEPT ![t] = w]
    /\ UNCHANGED <<cancel_flag, cancel_dialog>>

\* The thread returns result from run_installation_logic.
Returned(w, result) == [w EXCEPT !.pc = "returned", !.result = result]

\* Defensive reset at the top of the central panel.
ResetIfStuck(s) ==
    IF s.install_result # NoResult /\ s.is_installing
    THEN [s EXCEPT !.is_installing = FALSE] ELSE s

(***************************************************************************)
(* Frames of update().                                                     *)
(***************************************************************************)
\* A frame in which Install is clicked.
FrameInstall ==
    LET s == ResetIfStuck(ui_state) IN
    /\ Len(workers) < MaxInstalls
    /\ ~s.is_installing
    /\ ui_state' = [output_log |-> <<>>,
                    is_installing |-> TRUE,
                    install_result |-> NoResult,
                    download_progress |-> Zero,
                    extract_progress |-> Zero,
                    current_status |-> "Starting installation process..."]
    /\ cancel_flag' = FALSE
    /\ workers' = Append(workers, NewWorker)
    /\ UNCHANGED <<stored_state, cancel_dialog>>

\* A frame in which Cancel Installation is clicked.
FrameCancelClicked ==
    LET s == ResetIfStuck(ui_state) IN
    /\ s.is_installing
    /\ ~cancel_dialog
    /\ cancel_dialog' = TRUE
    /\ ui_state' = s
    /\ UNCHANGED <<stored_state, cancel_flag, workers>>

\* A frame in which "Yes, stop" is clicked.
FrameYesStop ==
    /\ cancel_dialog
    /\ cancel_flag' = TRUE
    /\ ui_state' = [output_log |-> <<>>,
                    is_installing |-> FALSE,
                    install_result |-> ErrCancelledUi,
                    download_progress |-> Zero,
                    extract_progress |-> Zero,
                    current_status |-> "Installation cancelled."]
    /\ cancel_dialog' = FALSE
    /\ UNCHANGED <<stored_state, workers>>

\* A frame in which "No, continue" is clicked.
FrameNoContinue ==
    /\ cancel_dialog
    /\ cancel_dialog' = FALSE
    /\ ui_state' = ResetIfStuck(ui_state)
    /\ UNCHANGED <<stored_state, cancel_flag, workers>>

\* A frame without input, such as the repaint a thread requested.
FrameRepaint ==
    /\ ui_state' = ResetIfStuck(ui_state)
    /\ UNCHANGED <<stored_state, cancel_flag, cancel_dialog, workers>>

(***************************************************************************)
(* run_installation_logic, by its log pushes and update_app_state calls.   *)
(***************************************************************************)
\* System information.
ThreadStart(t) ==
    /\ workers[t].pc = "start"
    /\ WorkerStep(t, [workers[t] EXCEPT !.pc = "resolve"], <<Line>>, NoUpdate)

\* Resolution: status and log line first, then the endpoint is queried; a
\* failure returns through map_err or return Err, with no log line.
ThreadResolve(t) ==
    /\ workers[t].pc = "resolve"
    /\ \E ok \in BOOLEAN :
          WorkerStep(t,
              IF ok THEN [workers[t] EXCEPT !.pc = "idempotency"]
                    ELSE Returned(workers[t], ErrOther),
              <<Line>>,
              [current_status |-> "Preparing installation..."])

\* Idempotency check.
ThreadIdempotency(t) ==
    /\ workers[t].pc = "idempotency"
    /\ \/ WorkerStep(t, Returned(workers[t], OkResult), <<Line>>,
                     [current_status |-> "is already installed.",
                      download_progress |-> One, extract_progress |-> One])
       \/ WorkerStep(t, [workers[t] EXCEPT !.pc = "send"], <<Line>>,
                     [current_status |-> "Checking for existing installations..."])

\* The download request.
ThreadSend(t) ==
    /\ workers[t].pc = "send"
    /\ \E ok \in BOOLEAN :
          WorkerStep(t,
              IF ok THEN [workers[t] EXCEPT !.pc = "download"]
                    ELSE Returned(workers[t], ErrOther),
              <<Line>>,
              [current_status |-> "Downloading...",
               download_progress |-> Zero, extract_progress |-> Zero])

\* One iteration of the download loop: poll, read, report.
ThreadDownloadChunk(t) ==
    LET w == workers[t] IN
    /\ w.pc = "download"
    /\ IF cancel_flag
       THEN WorkerStep(t, Returned(w, ErrCancelledByUser), <<Line>>,
                       [current_status |-> "Installation cancelled."])
       ELSE \/ WorkerStep(t, [w EXCEPT !.pc = "open"], <<>>, NoUpdate)
            \/ \E fraction \in Fractions :
                  /\ w.chunks < MaxChunks
                  /\ WorkerStep(t, [w EXCEPT !.chunks = @ + 1], <<Line>>,
                             [current_status |-> "Downloading... %",
                              download_progress |-> fraction])
            \/ WorkerStep(t, Returned(w, ErrOther), <<>>, NoUpdate)

\* The archive is written to disk and opened.
ThreadOpenArchive(t) ==
    LET w == workers[t] IN
    /\ w.pc = "open"
    /\ \/ WorkerStep(t, Returned(w, ErrOther), <<>>, NoUpdate)
       \/ WorkerStep(t, [w EXCEPT !.pc = "extract"], <<>>,
                     [current_status |-> "Extracting files, almost there...",
                      extract_progress |-> Zero])

\* One iteration of the entry loop, or its end.
ThreadExtractEntry(t) ==
    LET w == workers[t] IN
    /\ w.pc = "extract"
    /\ \/ \E is_tar \in BOOLEAN :
             WorkerStep(t, [w EXCEPT !.pc = "verify"], <<Line>>,
                        IF is_tar THEN [extract_progress |-> One] ELSE NoUpdate)
       \/ IF cancel_flag
          THEN WorkerStep(t, Returned(w, ErrCancelledByUser), <<Line>>,
                          [current_status |-> "Installation cancelled."])
          ELSE \/ WorkerStep(t, Returned(w, ErrOther), <<>>, NoUpdate)
               \/ \E fraction \in Fractions :
                     /\ w.entries < MaxEntries
                     /\ WorkerStep(t, [w EXCEPT !.entries = @ + 1], <<Line>>,
                                [current_status |-> "Extracting... %",
                                 extract_progress |-> fraction])

\* Normalization and environment (no state update), then verification.
ThreadVerify(t) ==
    LET w == workers[t] IN
    /\ w.pc = "verify"
    /\ \/ WorkerStep(t, Returned(w, OkResult), <<Line>>,
                     [current_status |-> "installation complete!",
                      download_progress |-> One, extract_progress |-> One])
       \/ WorkerStep(t, Returned(w, ErrVerification), <<Line, "verification failed.">>,
                     [current_status |-> "verification failed."])
       \/ WorkerStep(t, Returned(w, ErrOther), <<Line>>,
                     [current_status |-> "Verifying installation..."])

\* The line the completion closure pushes for a failure.
ErrorLine(result) == "ERROR: " \o result

\* The completion closure: it looks the app up in the egui data and writes
\* the LanguageState found there, the log behind that state's own Arc included.
ThreadComplete(t) ==
    LET w == workers[t] IN
    /\ w.pc = "returned"
    /\ stored_state' =
          [stored_state EXCEPT
              !.is_installing = FALSE,
              !.output_log = IF w.result # OkResult THEN Append(@, ErrorLine(w.result)) ELSE @,
              !.install_result = w.result,
              !.current_status = IF w.result = OkResult THEN "Installation complete!"
                                 ELSE "Installation failed."]
    /\ workers' = [workers EXCEPT ![t].pc = "finished"]
    /\ UNCHANGED <<ui_state, cancel_flag, cancel_dialog>>

InitStates == StatesInit /\ UiInit /\ CompatIdle /\ ExtractIdle /\ RunsIdle /\ ProgressInit /\ PipIdle /\ EnvIdle /\ LocksIdle /\ TaskIdle
NextStates ==
    \/ FrameInstall /\ UNCHANGED notStateVars
    \/ FrameCancelClicked /\ UNCHANGED notStateVars
    \/ FrameYesStop /\ UNCHANGED notStateVars
    \/ FrameNoContinue /\ UNCHANGED notStateVars
    \/ FrameRepaint /\ UNCHANGED notStateVars
    \/ (\E t \in WorkerIds : ThreadStart(t)) /\ UNCHANGED notStateVars
    \/ (\E t \in WorkerIds : ThreadResolve(t)) /\ UNCHANGED notStateVars
    \/ (\E t \in WorkerIds : ThreadIdempotency(t)) /\ UNCHANGED notStateVars
    \/ (\E t \in WorkerIds : ThreadSend(t)) /\ UNCHANGED notStateVars
    \/ (\E t \in WorkerIds : ThreadDownloadChunk(t)) /\ UNCHANGED notStateVars
    \/ (\E t \in WorkerIds : ThreadOpenArchive(t)) /\ UNCHANGED notStateVars
    \/ (\E t \in WorkerIds : ThreadExtractEntry(t)) /\ UNCHANGED notStateVars
    \/ (\E t \in WorkerIds : ThreadVerify(t)) /\ UNCHANGED notStateVars
    \/ (\E t \in WorkerIds : ThreadComplete(t)) /\ UNCHANGED notStateVars
SpecStates == InitStates /\ [][NextStates]_vars

\* C14: when a run has ended in failure (its thread is finished and no
\* newer run of the vendor was started), the log the interface draws holds
\* the failure message and the install_result the interface reads is that
\* failure.
C14_FailureReachesUi ==
    \A t \in WorkerIds :
        (t = Len(workers) /\ workers[t].pc = "finished" /\ workers[t].result # OkResult) =>
            /\ ui_state.install_result = workers[t].result
            /\ \E k \in 1..Len(ui_state.output_log) :
                  ui_state.output_log[k] = ErrorLine(workers[t].result)

\* C15: while a thread of the vendor is executing, a step that is not the
\* Install handler leaves the earlier content of the log as a prefix of the
\* later content: the log is only appended to, and only Install clears it.
C15_LogOnlyGrowsDuringRun ==
    [][((\E t \in WorkerIds : workers[t].pc # "finished") /\ Len(workers') = Len(workers))
         => IsPrefix(ui_state.output_log, ui_state'.output_log)]_vars

\* What a frame drawn in the current state shows.
Rendered == Draw(ResetIfStuck(ui_state))

\* C16: once the thread of the current run has called update_app_state, the
\* status text and the two fractions a frame renders are the ones the
\* background thread wrote last.
C16_UiRendersWhatThreadWrote ==
    \A t \in WorkerIds :
        (t = Len(workers) /\ workers[t].pc \notin {"start", "resolve"} /\ Rendered.installing) =>
            /\ Rendered.status = stored_state.current_status
            /\ Rendered.download = stored_state.download_progress
            /\ Rendered.extract = stored_state.extract_progress

\* C18: the outcome of a run is written at most once: when the completion
\* closure has written the outcome of the vendor's latest run, the cancel
\* handler has not written another outcome for that run.
C18_OutcomeWrittenOnce ==
    \A t \in WorkerIds :
        (t = Len(workers) /\ workers[t].pc = "finished") =>
            ui_state.install_result = NoResult

(***************************************************************************)
(* SpecProgress: the values run_installation_logic passes to               *)
(* update_app_state as download_progress and extract_progress, for a       *)
(* vendor that installs from a zip or tar archive.                         *)
(***************************************************************************)
\* Bytes of a response body (a unit stands for any number of bytes).
MaxBodyBytes == 3
\* Entries of a zip archive.
MaxZipEntries == 3
\* The estimate the tar progress divides by.
total_tar_entries_estimate == 1000

\* update_app_state with Some(download_progress) and Some(extract_progress).
ReportBoth(dp, ep) == progress' = [download_progress |-> dp, extract_progress |-> ep]
ReportDownload(dp) == progress' = [progress EXCEPT !.download_progress = dp]
ReportExtract(ep) == progress' = [progress EXCEPT !.extract_progress = ep]

\* Idempotency check: an installed, compatible version ends the run with
\* both fractions at 1.0.
JobIdempotency ==
    /\ job_pc = "idempotency"
    /\ \/ job_pc' = "returned" /\ ReportBoth(One, One) /\ UNCHANGED job
       \/ job_pc' = "send" /\ UNCHANGED <<job, progress>>

\* The download request: both fractions to 0.0, then the response and its
\* Content-Length.  A body of known length delivers that many bytes.
JobSend ==
    /\ job_pc = "send"
    /\ ReportBoth(Zero, Zero)
    /\ \/ job_pc' = "returned" /\ UNCHANGED job
       \/ \E total_size \in 0..MaxBodyBytes, body \in 1..MaxBodyBytes :
             /\ total_size > 0 => body = total_size
             /\ job' = [job EXCEPT !.total_size = total_size, !.body_bytes = body]
             /\ job_pc' = "download"

\* progress of the download loop after a read.
DownloadProgress(downloaded_bytes, total_size) ==
    IF total_size > 0 THEN Fraction(downloaded_bytes, total_size) ELSE Zero

\* One iteration of the download loop: end of stream, or a chunk.
JobDownloadChunk ==
    /\ job_pc = "download"
    /\ \/ /\ job.downloaded_bytes = job.body_bytes
          /\ job_pc' = "open"
          /\ UNCHANGED <<job, progress>>
       \/ \E bytes_read \in 1..(job.body_bytes - job.downloaded_bytes) :
             /\ job' = [job EXCEPT !.downloaded_bytes = @ + bytes_read]
             /\ ReportDownload(DownloadProgress(job.downloaded_bytes + bytes_read, job.total_size))
             /\ UNCHANGED job_pc
       \/ /\ job.downloaded_bytes < job.body_bytes
          /\ job_pc' = "returned"
          /\ UNCHANGED <<job, progress>>

\* The archive is opened: extract_progress to 0.0.
JobOpenArchive ==
    /\ job_pc = "open"
    /\ \/ job_pc' = "returned" /\ UNCHANGED <<job, progress>>
       \/ \E ext \in {"zip", "tar"},
             total_files \in 1..MaxZipEntries \cup {total_tar_entries_estimate + 1} :
             /\ ext = "zip" => total_files <= MaxZipEntries
             /\ ext = "tar" => total_files \in {1, total_tar_entries_estimate + 1}
             /\ job' = [job EXCEPT !.archive = ext, !.total_files = total_files]
             /\ ReportExtract(Zero)
             /\ job_pc' = "extract"

\* progress of the tar entry loop without the cap.
TarProgressUncapped(entries_processed) ==
    Fraction(entries_processed, total_tar_entries_estimate)

\* progress of the tar entry loop: (entries_processed / estimate).min(1.0).
TarProgress(entries_processed) ==
    IF entries_processed >= total_tar_entries_estimate
    THEN One ELSE Fraction(entries_processed, total_tar_entries_estimate)

\* progress of the zip entry loop, i being the index of the entry written.
ZipProgress(i, total_files) == Fraction(i + 1, total_files)

\* The entry loop.  n iterations run back to back (n > 1 for tar only; each
\* reports, the last report is the one that stays); after the last entry
\* the tar branch reports 1.0.
JobExtractEntries ==
    /\ job_pc = "extract"
    /\ IF job.entries_processed = job.total_files
       THEN /\ job_pc' = "verify"
            /\ IF job.archive = "tar" THEN ReportExtract(One) ELSE UNCHANGED progress
            /\ UNCHANGED job
       ELSE \/ job_pc' = "returned" /\ UNCHANGED <<job, progress>>
            \/ \E n \in {1, total_tar_entries_estimate} :
                  /\ n > 1 => job.archive = "tar"
                  /\ job.entries_processed + n <= job.total_files
                  /\ job' = [job EXCEPT !.entries_processed = @ + n]
                  /\ ReportExtract(IF job.archive = "zip"
                                   THEN ZipProgress(job.entries_processed, job.total_files)
                                   ELSE TarProgress(job.entries_processed + n))
                  /\ UNCHANGED job_pc

\* Verification: success reports both fractions as 1.0.
JobVerify ==
    /\ job_pc = "verify"
    /\ job_pc' = "returned"
    /\ UNCHANGED job
    /\ \/ ReportBoth(One, One)
       \/ UNCHANGED progress

InitProgress == ProgressInit /\ UiInit /\ CompatIdle /\ ExtractIdle /\ RunsIdle /\ StatesInit /\ PipIdle /\ EnvIdle /\ LocksIdle /\ TaskIdle
NextProgress ==
    \/ JobIdempotency /\ UNCHANGED notProgressVars
    \/ JobSend /\ UNCHANGED notProgressVars
    \/ JobDownloadChunk /\ UNCHANGED notProgressVars
    \/ JobOpenArchive /\ UNCHANGED notProgressVars
    \/ JobExtractEntries /\ UNCHANGED notProgressVars
    \/ JobVerify /\ UNCHANGED notProgressVars
SpecProgress == InitProgress /\ [][NextProgress]_vars

\* f is a fraction in [0, 1].
InUnitInterval(f) == f[2] > 0 /\ 0 <= f[1] /\ f[1] <= f[2]
\* f = n / d.
IsRatio(f, n, d) == f[1] * d = n * f[2]

\* C17: download_progress and extract_progress are always within [0, 1];
\* in the download loop the fraction is bytes read over Content-Length when
\* that is known and 0 otherwise; in the zip entry loop it is entries
\* processed over total entries; in the tar entry loop it is entries
\* processed over the estimate, capped at 1.
C17_ProgressInUnitInterval ==
    /\ InUnitInterval(progress.download_progress)
    /\ InUnitInterval(progress.extract_progress)
    /\ (job_pc = "download" /\ job.downloaded_bytes > 0) =>
          IF job.total_size > 0
          THEN IsRatio(progress.download_progress, job.downloaded_bytes, job.total_size)
          ELSE IsRatio(progress.download_progress, 0, 1)
    /\ (job_pc = "extract" /\ job.entries_processed > 0 /\ job.archive = "zip") =>
          IsRatio(progress.extract_progress, job.entries_processed, job.total_files)
    /\ (job_pc = "extract" /\ job.entries_processed > 0 /\ job.archive = "tar") =>
          IF job.entries_processed > total_tar_entries_estimate
          THEN IsRatio(progress.extract_progress, 1, 1)
          ELSE IsRatio(progress.extract_progress, job.entries_processed,
                       total_tar_entries_estimate)

\* A tar archive with more entries than the estimate has been extracted.
C17_Witness ==
    /\ job_pc = "extract"
    /\ job.archive = "tar"
    /\ job.entries_processed > total_tar_entries_estimate
    /\ progress.extract_progress = One

(***************************************************************************)
(* SpecPip: the Python steps of run_installation_logic from the version    *)
(* check of verification to the end: pip bootstrap, then the requested     *)
(* libraries one by one.                                                   *)
(***************************************************************************)
S_Version_colon == <<"V", "e", "r", "s", "i", "o", "n", ":">>
L_one == <<"a", "=", "=", "1">>
L_two == <<"a", "=", "=", "1", ",", "b", ">", "=", "1">>
L_spaced == <<" ", "a", "=", "=", "1", ",", " ", ",", "b", ">", "=", "1">>
L_bare == <<"a">>
L_le == <<"a", "<", "=", "1">>
L_tilde == <<"a", "~", "=", "1">>
L_lt == <<"a", "<", "2">>
L_gt == <<"a", ">", "0">>
\* Texts of the Python Libraries field.
LibraryInputs == {<<>>, L_one, L_two, L_spaced, L_bare, L_le, L_tilde, L_lt, L_gt}
Show_1 == <<"N", "a", "m", "e", ":", " ", "a", "\n", "V", "e", "r", "s", "i", "o", "n", ":", " ", "1", "\n">>
Show_2 == <<"V", "e", "r", "s", "i", "o", "n", ":", " ", "2", "\n">>
\* What pip show prints on stdout.
ShowOutputs == {<<>>, Show_1, Show_2}
S_numpy == <<"n", "u", "m", "p", "y">>
L_numpy == <<"n", "u", "m", "p", "y", ">", "=", "1", ".", "2", "0", ".", "0">>
Show_numpy_1_20_0 == <<"V", "e", "r", "s", "i", "o", "n", ":", " ", "1", ".", "2", "0", ".", "0", "\n">>
Show_numpy_1_26_4 == <<"N", "a", "m", "e", ":", " ", "n", "u", "m", "p", "y", "\n",
      "V", "e", "r", "s", "i", "o", "n", ":", " ", "1", ".", "2", "6", ".", "4", "\n",
      "S", "u", "m", "m", "a", "r", "y", ":", " ", "a", "r", "r", "a", "y", "s", "\n">>
Show_numpy_2_1_3 == <<"N", "a", "m", "e", ":", " ", "n", "u", "m", "p", "y", "\n",
      "V", "e", "r", "s", "i", "o", "n", ":", " ", "2", ".", "1", ".", "3", "\n">>
Show_numpy_10_0_0 == <<"V", "e", "r", "s", "i", "o", "n", ":", " ", "1", "0", ".", "0", ".", "0", "\n">>
\* What pip show prints for numpy once `pip install numpy>=1.20.0` has
\* succeeded on a machine that had no numpy: a release that pip accepts for
\* the specifier (the oldest one, two later ones, a two-digit major).
NumpyShowOutputs == {Show_numpy_1_20_0, Show_numpy_1_26_4, Show_numpy_2_1_3, Show_numpy_10_0_0}
ShowOutputsOf(lib_name) == IF lib_name = S_numpy THEN NumpyShowOutputs ELSE ShowOutputs

\* format!("{}", s) of a text.
RECURSIVE Text(_)
Text(s) == IF s = <<>> THEN "" ELSE s[1] \o Text(Tail(s))

\* The errors of the pip steps.
ErrGetPip == "Err(pip installation failed. Cannot proceed with library installation.)"
ErrGetPipSpawn == "Err(Failed to execute get-pip.py)"
ErrEnsurepipSpawn == "Err(Failed to bootstrap pip)"
ErrPipInstallSpawn(lib_spec) == "Err(Failed to execute pip install for " \o Text(lib_spec) \o ")"
ErrLibraryInstall(lib_spec) ==
    "Err(Python library installation failed: " \o Text(lib_spec) \o ".)"
ErrPipShowSpawn(lib_name) == "Err(Failed to execute pip show for " \o Text(lib_name) \o ")"
ErrLibraryCompat(lib_name, lib_spec, installed_lib_version) ==
    "Err(Library compatibility issue for " \o Text(lib_name) \o ": Expected "
        \o Text(lib_spec) \o ", got " \o Text(installed_lib_version) \o ".)"

\* lib_spec.split_once(&['=', '>', '<', '~']).map_or(lib_spec, |(name, _)| name)
LibName(lib_spec) ==
    LET at == {k \in 1..Len(lib_spec) : lib_spec[k] \in {"=", ">", "<", "~"}} IN
    IF at = {} THEN lib_spec
    ELSE SubSeq(lib_spec, 1, (CHOOSE k \in at : \A j \in at : k <= j) - 1)

NonEmpty(x) == x # <<>>
\* python_libraries.split(',').map(trim).filter(not empty).collect()
Libraries(python_libraries) ==
    LET parts == Split(python_libraries, <<",">>) IN
    SelectSeq([k \in 1..Len(parts) |-> Trim(parts[k])], NonEmpty)

\* The text after "Version:" in the first such line of pip show, or "unknown".
ParseLibVersion(stdout) ==
    LET lines == Lines(stdout)
        found == {k \in 1..Len(lines) : StartsWith(lines[k], S_Version_colon)} IN
    IF found = {} THEN S_unknown
    ELSE Trim(NthOr(Split(lines[CHOOSE k \in found : \A j \in found : k <= j], <<":">>),
                    1, S_unknown))

\* The run has executed step for library number lib, with outcome ok.
Event(step, lib, ok) == [step |-> step, lib |-> lib, ok |-> ok]
\* The run goes on at pc after the step, or returns result.
PipStep(event, p, result, pc) ==
    /\ pip' = [p EXCEPT !.events = Append(@, event), !.result = result]
    /\ pip_pc' = IF result = NoResult THEN pc ELSE "returned"

\* Verification of the Python executable and its version check.
PipVerify ==
    /\ pip_pc = "verify"
    /\ \/ PipStep(Event("verify", 0, TRUE), pip, NoResult, "bootstrap")
       \/ PipStep(Event("verify", 0, FALSE), pip, ErrVersionMismatch, "returned")
       \/ PipStep(Event("verify", 0, FALSE), pip, ErrVerification, "returned")

\* What the bootstrap leads to.  started is FALSE when get-pip.py cannot be
\* downloaded, saved or run, or when ensurepip cannot be run (the `?` on
\* both branches); success is the exit status, which ends the run on
\* Windows and is only logged elsewhere.
BootstrapOutcome(os, started, success) ==
    IF ~started THEN (IF os = "windows" THEN ErrGetPipSpawn ELSE ErrEnsurepipSpawn)
    ELSE IF os = "windows" /\ ~success THEN ErrGetPip
    ELSE NoResult

\* Step 1: get-pip.py on Windows, ensurepip elsewhere.  Then the library list.
PipBootstrap ==
    /\ pip_pc = "bootstrap"
    /\ \E started, success \in BOOLEAN :
          LET libraries == Libraries(pip.python_libraries)
              outcome == BootstrapOutcome(pip.os, started, success)
              how == IF ~started THEN "not started" ELSE IF success THEN "ok" ELSE "failed"
              p == IF outcome = NoResult
                   THEN [pip EXCEPT !.bootstrap = how, !.libraries = libraries,
                                    !.lib = IF libraries = <<>> THEN 0 ELSE 1]
                   ELSE [pip EXCEPT !.bootstrap = how] IN
          /\ ~started => ~success
          /\ PipStep(Event("bootstrap", 0, success), p, outcome,
                     IF libraries = <<>> THEN "done" ELSE "install")

\* What pip install leads to, failures not ending the run.
InstallOutcomeIgnoringFailure(started, success, lib_spec) == NoResult

\* What pip install leads to: Err when the process cannot be started or
\* exits with a failure status.
InstallOutcome(started, success, lib_spec) ==
    IF ~started THEN ErrPipInstallSpawn(lib_spec)
    ELSE IF ~success THEN ErrLibraryInstall(lib_spec)
    ELSE NoResult

\* pip install lib_spec.
PipInstall ==
    /\ pip_pc = "install"
    /\ \E started, success \in BOOLEAN :
          /\ ~started => ~success
          /\ PipStep(Event("install", pip.lib, success), pip,
                     InstallOutcome(started, success, pip.libraries[pip.lib]), "show")

\* pip show lib_name and the parse of its output; the exit status is not
\* looked at.
PipShow ==
    /\ pip_pc = "show"
    /\ \/ PipStep(Event("show", pip.lib, FALSE), pip,
                  ErrPipShowSpawn(LibName(pip.libraries[pip.lib])), "returned")
       \/ \E stdout \in ShowOutputsOf(LibName(pip.libraries[pip.lib])) :
             PipStep(Event("show", pip.lib, TRUE),
                     [pip EXCEPT !.installed_lib_version = ParseLibVersion(stdout)],
                     NoResult, "check")

\* After the check, mismatches not ending the run.
AfterCheckIgnoringMismatch(compatible, last) ==
    [abort |-> FALSE, pc |-> IF last THEN "done" ELSE "install"]

\* After the check: a mismatch returns Err, else the next library or the end
\* of the loop.
AfterCheck(compatible, last) ==
    IF ~compatible THEN [abort |-> TRUE, pc |-> "returned"]
    ELSE [abort |-> FALSE, pc |-> IF last THEN "done" ELSE "install"]

\* is_version_compatible(installed_lib_version, lib_spec).
PipCheck ==
    /\ pip_pc = "check"
    /\ LET lib_spec == pip.libraries[pip.lib]
           compatible == is_version_compatible(pip.installed_lib_version, lib_spec)
           after == AfterCheck(compatible, pip.lib = Len(pip.libraries)) IN
       PipStep(Event("check", pip.lib, compatible),
               [pip EXCEPT !.lib = IF after.pc = "install" THEN @ + 1 ELSE @,
                           !.installed_lib_version = IF after.abort THEN @ ELSE <<>>],
               IF after.abort
               THEN ErrLibraryCompat(LibName(lib_spec), lib_spec, pip.installed_lib_version)
               ELSE NoResult,
               after.pc)

\* "installation complete!" and Ok(()).
PipDone ==
    /\ pip_pc = "done"
    /\ pip_pc' = "returned"
    /\ pip' = [pip EXCEPT !.result = OkResult]

PipInit ==
    /\ pip_pc = "verify"
    /\ pip \in {NoPip(os, text) : os \in {"windows", "linux"}, text \in LibraryInputs}
InitPip == PipInit /\ UiInit /\ CompatIdle /\ ExtractIdle /\ RunsIdle /\ StatesInit /\ ProgressInit /\ EnvIdle /\ LocksIdle /\ TaskIdle
NextPip ==
    \/ PipVerify /\ UNCHANGED notPipVars
    \/ PipBootstrap /\ UNCHANGED notPipVars
    \/ PipInstall /\ UNCHANGED notPipVars
    \/ PipShow /\ UNCHANGED notPipVars
    \/ PipCheck /\ UNCHANGED notPipVars
    \/ PipDone /\ UNCHANGED notPipVars
SpecPip == InitPip /\ [][NextPip]_vars

PackageSteps == <<"install", "show", "check">>

\* C20: the Python steps run in the order verify, bootstrap, then install,
\* show, check for the first library, the same for the second, and so on;
\* an install that is not the first follows a passed check of the library
\* before it; success is returned only after every library of the list has
\* passed its check.
C20_PythonPostInstallOrder ==
    LET ev == pip.events IN
    /\ \A k \in 1..Len(ev) :
          IF k = 1 THEN ev[k].step = "verify"
          ELSE IF k = 2 THEN ev[k].step = "bootstrap"
          ELSE /\ ev[k].step = PackageSteps[((k - 3) % 3) + 1]
               /\ ev[k].lib = ((k - 3) \div 3) + 1
               /\ ev[k].lib <= Len(pip.libraries)
    /\ \A k \in 1..Len(ev) :
          (ev[k].step = "install" /\ ev[k].lib > 1) =>
              ev[k - 1] = Event("check", ev[k].lib - 1, TRUE)
    /\ pip.result = OkResult =>
          /\ Len(ev) = 2 + 3 * Len(pip.libraries)
          /\ \A j \in 1..Len(pip.libraries) : ev[2 + 3 * j] = Event("check", j, TRUE)

\* A run with two libraries has returned success.
C20_Witness ==
    /\ pip_pc = "returned"
    /\ pip.result = OkResult
    /\ pip.python_libraries = L_spaced
    /\ Len(pip.libraries) = 2

\* The run has ended in the step of its last event.
EndedInLastStep == pip_pc = "returned" /\ pip.result \notin {NoResult, OkResult}

\* C21: a failed pip install, and a reported version that is incompatible
\* with the specifier, is the last step of the run: the run has returned an
\* error that names the package, and no step for a later package follows.
C21_PackageFailureEndsRun ==
    \A k \in 1..Len(pip.events) :
        LET e == pip.events[k]
            lib_spec == pip.libraries[e.lib] IN
        (e.step \in {"install", "check"} /\ ~e.ok) =>
            /\ k = Len(pip.events)
            /\ EndedInLastStep
            /\ IF e.step = "install"
               THEN pip.result \in {ErrLibraryInstall(lib_spec), ErrPipInstallSpawn(lib_spec)}
               ELSE pip.result = ErrLibraryCompat(LibName(lib_spec), lib_spec,
                                                  pip.installed_lib_version)

\* The first of two packages was installed and its version is incompatible.
C21_Witness ==
    /\ Len(pip.libraries) = 2
    /\ Len(pip.events) = 5
    /\ pip.events[5] = Event("check", 1, FALSE)
    /\ pip_pc = "returned"

\* The bootstrap was the run's last step and ended it in failure.
AbortedInBootstrap == Len(pip.events) = 2 /\ EndedInLastStep

\* C22 as stated: a failed pip bootstrap ends the run exactly on Windows;
\* elsewhere the run goes on to the package installs.
C22_BootstrapAbortsOnWindowsOnly ==
    (Len(pip.events) >= 2 /\ ~pip.events[2].ok) =>
        /\ AbortedInBootstrap <=> pip.os = "windows"
        /\ (~AbortedInBootstrap /\ pip.libraries # <<>>) =>
              \/ pip_pc = "install"
              \/ Len(pip.events) >= 3 /\ pip.events[3].step = "install"

(***************************************************************************)
(* SpecScenario: one run of run_installation_logic for Python 3.11.9 with  *)
(* the library numpy>=1.20.0 on a machine without an installation, from    *)
(* resolution to the last library.                                         *)
(***************************************************************************)
V_3_11_9 == <<"3", ".", "1", "1", ".", "9">>
Out_python_3_11_9 == <<"P", "y", "t", "h", "o", "n", " ", "3", ".", "1", "1", ".", "9", "\n">>
ScenarioRequest == [vendor |-> "python", version |-> V_3_11_9, install_latest |-> FALSE]
ScenarioMachines ==
    {[os |-> os, data |-> <<>>, link |-> [found |-> FALSE, text |-> ""],
      stdout |-> out, stderr |-> <<>>,
      spawn_ok |-> spawn, exit_ok |-> exit, delivers_exe |-> exe] :
        os \in {"windows", "linux"}, out \in {Out_python_3_11_9, Out_python_3_12_4},
        spawn \in BOOLEAN, exit \in BOOLEAN, exe \in BOOLEAN}

ScenarioInit ==
    /\ request = ScenarioRequest
    /\ machine \in ScenarioMachines
    /\ disk = [path_exists |-> FALSE, exe_exists |-> FALSE]
    /\ run_no = 1
    /\ run_pc = "resolve"
    /\ run = NoRun
    /\ first_run = NoRun
    /\ pip_pc = "bootstrap"
    /\ pip = NoPip(machine.os, L_numpy)

\* 1021-1206 within the run: the pip steps have returned.
RunPipReturned ==
    /\ run_pc = "python_packages"
    /\ pip_pc = "returned"
    /\ Step("python_packages", [run EXCEPT !.fs_written = TRUE], pip.result, "returned")
    /\ UNCHANGED <<request, machine, disk, run_no, first_run>>

InitScenario ==
    ScenarioInit /\ UiInit /\ CompatIdle /\ ExtractIdle /\ StatesInit /\ ProgressInit /\ EnvIdle
                 /\ LocksIdle /\ TaskIdle
NextScenario ==
    \/ RunResolve /\ UNCHANGED notRunVars
    \/ RunIdempotencyCheck /\ UNCHANGED notRunVars
    \/ RunDownload /\ UNCHANGED notRunVars
    \/ RunExtract /\ UNCHANGED notRunVars
    \/ RunConfigureEnv /\ UNCHANGED notRunVars
    \/ RunVerify /\ UNCHANGED notRunVars
    \/ run_pc = "python_packages" /\ PipBootstrap /\ UNCHANGED notPipVars
    \/ run_pc = "python_packages" /\ PipInstall /\ UNCHANGED notPipVars
    \/ run_pc = "python_packages" /\ PipShow /\ UNCHANGED notPipVars
    \/ run_pc = "python_packages" /\ PipCheck /\ UNCHANGED notPipVars
    \/ run_pc = "python_packages" /\ PipDone /\ UNCHANGED notPipVars
    \/ RunPipReturned /\ UNCHANGED notRunVars
SpecScenario == InitScenario /\ [][NextScenario]_vars

\* The errors of a run whose cause is a step outside the program: the
\* download, the extraction, starting or running the interpreter, pip.
ExternalFailures ==
    {ErrOther, ErrVerification, ErrGetPip, ErrGetPipSpawn, ErrEnsurepipSpawn,
     ErrPipInstallSpawn(L_numpy), ErrLibraryInstall(L_numpy), ErrPipShowSpawn(S_numpy)}

\* C23: the run for Python 3.11.9 with numpy>=1.20.0 on a machine without
\* an installation, whose interpreter reports "Python 3.11.9" and in which
\* no external step failed, is not stopped by the idempotency check, passes
\* the Python version check and the numpy version check, and returns Ok(()).
C23_ScenarioSucceeds ==
    (/\ run_pc = "returned"
     /\ machine.stdout = Out_python_3_11_9
     /\ run.result \notin ExternalFailures) =>
        /\ run.result = OkResult
        /\ ~run.found_installed
        /\ run.steps = <<"resolve", "idempotency", "download", "extract", "configure_env",
                          "verify", "python_packages">>
        /\ pip.libraries = <<L_numpy>>
        /\ pip.events[Len(pip.events)] = Event("check", 1, TRUE)

\* The run has installed Python 3.11.9 and numpy and has returned Ok(()).
C23_Witness ==
    /\ run_pc = "returned"
    /\ machine.stdout = Out_python_3_11_9
    /\ run.result = OkResult
    /\ Len(pip.events) = 4
    /\ pip.events[4] = Event("check", 1, TRUE)

(***************************************************************************)
(* SpecEnv: the environment step (861-908) of the runs of different        *)
(* vendors, each on its own thread, on the environment of the one process. *)
(* env::var and env::set_var are one step each.                            *)
(***************************************************************************)
EnvNames == {"JAVA_HOME", "PYTHON_HOME", "GOROOT", "PATH", "HOME"}
PathVendors == {"c_cpp", "nodejs", "go"}

\* actual_sdk_root_final of the vendor's run, and the directory it puts on PATH.
SdkRoot(vendor) == vendor \o "_versions/v"
BinPath(vendor, os) ==
    IF vendor = "nodejs" /\ os = "windows" THEN SdkRoot(vendor) ELSE SdkRoot(vendor) \o "/bin"

\* The branches of 865-908 with rust in the last one.
HomeVariableAlsoForRust(vendor) ==
    CASE vendor = "python" -> "PYTHON_HOME"
      [] vendor = "go" -> "GOROOT"
      [] vendor \in {"c_cpp", "nodejs"} -> ""
      [] OTHER -> "JAVA_HOME"

\* 865-908: the variable the branch of the vendor sets to the SDK root, ""
\* when it sets none.
HomeVariable(vendor) ==
    CASE vendor = "python" -> "PYTHON_HOME"
      [] vendor = "go" -> "GOROOT"
      [] vendor \in {"c_cpp", "nodejs"} -> ""
      [] vendor # "rust" -> "JAVA_HOME"
      [] OTHER -> ""

\* env::var("PATH").unwrap_or_default(), as the entries between the `;`.
CurrentPath == IF process_env.PATH = <<>> THEN <<"">> ELSE process_env.PATH

EnvRun(pc) == [pc |-> pc, current_path |-> <<>>, vars_set |-> {}]

\* 866, 892, 903: std::env::set_var of PYTHON_HOME, GOROOT or JAVA_HOME.
EnvSetHome(vendor) ==
    /\ env_runs[vendor].pc = "configure"
    /\ HomeVariable(vendor) # ""
    /\ process_env' = [process_env EXCEPT ![HomeVariable(vendor)] = SdkRoot(vendor)]
    /\ env_runs' = [env_runs EXCEPT ![vendor].vars_set = @ \cup {HomeVariable(vendor)},
                                     ![vendor].pc = IF vendor \in PathVendors THEN "read_path"
                                                    ELSE "done"]
    /\ UNCHANGED env_os

\* Rust: no branch is taken.
EnvSetNothing(vendor) ==
    /\ env_runs[vendor].pc = "configure"
    /\ HomeVariable(vendor) = ""
    /\ vendor \notin PathVendors
    /\ env_runs' = [env_runs EXCEPT ![vendor].pc = "done"]
    /\ UNCHANGED <<env_os, process_env>>

\* 873, 885, 894: let current_path = env::var("PATH").unwrap_or_default().
EnvReadPath(vendor) ==
    /\ vendor \in PathVendors
    /\ \/ env_runs[vendor].pc = "read_path"
       \/ env_runs[vendor].pc = "configure" /\ HomeVariable(vendor) = ""
    /\ env_runs' = [env_runs EXCEPT ![vendor].current_path = CurrentPath,
                                     ![vendor].pc = "write_path"]
    /\ UNCHANGED <<env_os, process_env>>

\* 874, 886, 895: env::set_var("PATH", format!("{};{}", bin, current_path)).
EnvWritePath(vendor) ==
    /\ env_runs[vendor].pc = "write_path"
    /\ process_env' = [process_env EXCEPT
                          !.PATH = <<BinPath(vendor, env_os)>> \o env_runs[vendor].current_path]
    /\ env_runs' = [env_runs EXCEPT ![vendor].vars_set = @ \cup {"PATH"},
                                     ![vendor].current_path = <<>>,
                                     ![vendor].pc = "done"]
    /\ UNCHANGED env_os

\* The runs of the vendors have reached the environment step; C/C++ gets
\* there on Windows only (422-436).
EnvInit ==
    /\ env_os \in {"windows", "linux"}
    /\ process_env \in [JAVA_HOME : {"", "/old/jdk"}, PYTHON_HOME : {""}, GOROOT : {""},
                         PATH : {<<>>, <<"/usr/bin">>}, HOME : {"/root"}]
    /\ env_runs = [vendor \in (IF env_os = "windows" THEN Vendors ELSE Vendors \ {"c_cpp"})
                        |-> EnvRun("configure")]
InitEnv ==
    EnvInit /\ UiInit /\ CompatIdle /\ ExtractIdle /\ RunsIdle /\ StatesInit /\ ProgressInit
            /\ PipIdle /\ LocksIdle /\ TaskIdle
NextEnv ==
    \/ \E vendor \in DOMAIN env_runs : EnvSetHome(vendor) /\ UNCHANGED notEnvVars
    \/ \E vendor \in DOMAIN env_runs : EnvSetNothing(vendor) /\ UNCHANGED notEnvVars
    \/ \E vendor \in DOMAIN env_runs : EnvReadPath(vendor) /\ UNCHANGED notEnvVars
    \/ \E vendor \in DOMAIN env_runs : EnvWritePath(vendor) /\ UNCHANGED notEnvVars
SpecEnv == InitEnv /\ [][NextEnv]_vars

\* The variables the environment step of a vendor changes.
ConfiguredVariables(vendor) ==
    CASE vendor \in JavaVendors -> {"JAVA_HOME"}
      [] vendor = "python" -> {"PYTHON_HOME"}
      [] vendor = "go" -> {"GOROOT", "PATH"}
      [] vendor \in {"c_cpp", "nodejs"} -> {"PATH"}
      [] vendor = "rust" -> {}

Range(f) == {f[k] : k \in DOMAIN f}

\* C25 as stated: when runs among C/C++, Node.js and Go have completed
\* their environment step, PATH holds the directory each of them added.
C25_PathHoldsEveryPrefix ==
    \A vendor \in PathVendors \cap DOMAIN env_runs :
        env_runs[vendor].pc = "done" => BinPath(vendor, env_os) \in Range(process_env.PATH)

(***************************************************************************)
(* SpecLocks: the mutexes.  "app" is the Mutex of the JdkInstallerApp that *)
(* main stores in the egui data (1702-1704); log(v) is output_log of the   *)
(* vendor in the app eframe runs, which the Install handler hands to the   *)
(* thread (1441); stored_log(v) is output_log of the vendor in the stored  *)
(* app, a Mutex of its own since each JdkInstallerApp::new creates one.    *)
(***************************************************************************)
MaxBackgroundThreads == 2
Free == -1
Foreground == 0
BackgroundThreads == 1..MaxBackgroundThreads
AppLock == "app"
LogLock(vendor) == "log " \o vendor
StoredLogLock(vendor) == "stored log " \o vendor
Locks == {AppLock} \cup {LogLock(v) : v \in TabVendors} \cup {StoredLogLock(v) : v \in TabVendors}

Lock(l) == [op |-> "lock", arg |-> l]
Unlock(l) == [op |-> "unlock", arg |-> l]
Blocking(what) == [op |-> "block", arg |-> what]

\* 189-207: update_app_state.
UpdateAppStateOps == <<Lock(AppLock), Unlock(AppLock)>>

\* 1459-1476: the closure after run_installation_logic; the log of the
\* stored app is locked inside the guard of the app when the run failed.
CompletionOps(vendor, err) ==
    <<Lock(AppLock)>>
    \o (IF err THEN <<Lock(StoredLogLock(vendor)), Unlock(StoredLogLock(vendor))>> ELSE <<>>)
    \o <<Unlock(AppLock)>>

\* An install thread in which the idempotency check holds the log of the
\* stored app and reports its status before it drops the guard.
ProgramReportingUnderStoredLog(vendor, err) ==
    <<Lock(StoredLogLock(vendor)), Blocking("probe")>> \o UpdateAppStateOps
    \o <<Unlock(StoredLogLock(vendor))>>
    \o CompletionOps(vendor, err)

\* The lock(), drop and blocking calls of an install thread, in program
\* order: update_app_state (547), the idempotency check with the log guard
\* alive from 548 to 612 around exists() and Command::output() (551-564),
\* the download (626-655), a log line (657-659), the completion closure.
Program(vendor, err) ==
    UpdateAppStateOps
    \o <<Lock(LogLock(vendor)), Blocking("probe"), Unlock(LogLock(vendor))>>
    \o <<Blocking("download")>>
    \o <<Lock(LogLock(vendor)), Unlock(LogLock(vendor))>>
    \o CompletionOps(vendor, err)

\* 1430, 1520-1587, 1609: the foreground thread locks the log of the
\* selected vendor and drops the guard at the end of the statement or closure.
UiProgram(vendor) == <<Lock(LogLock(vendor)), Unlock(LogLock(vendor))>>

Ops(t) ==
    IF t = Foreground THEN UiProgram(lock_threads[t].vendor)
    ELSE Program(lock_threads[t].vendor, lock_threads[t].err)
AtOp(t, op) ==
    /\ lock_threads[t].pc <= Len(Ops(t))
    /\ Ops(t)[lock_threads[t].pc].op = op
NextArg(t) == Ops(t)[lock_threads[t].pc].arg
Held(t) == {l \in Locks : lock_owner[l] = t}
Advance(t) == lock_threads' = [lock_threads EXCEPT ![t].pc = @ + 1]

\* Mutex::lock returns: the mutex was free.
ThreadLock(t) ==
    /\ AtOp(t, "lock")
    /\ lock_owner[NextArg(t)] = Free
    /\ lock_owner' = [lock_owner EXCEPT ![NextArg(t)] = t]
    /\ lock_orders' = lock_orders \cup {<<held, NextArg(t)>> : held \in Held(t)}
    /\ Advance(t)

\* The guard is dropped.
ThreadUnlock(t) ==
    /\ AtOp(t, "unlock")
    /\ lock_owner' = [lock_owner EXCEPT ![NextArg(t)] = Free]
    /\ Advance(t)
    /\ UNCHANGED lock_orders

\* An HTTP call, a subprocess or file I/O returns.
ThreadBlockingReturns(t) ==
    /\ AtOp(t, "block")
    /\ Advance(t)
    /\ UNCHANGED <<lock_owner, lock_orders>>

\* 1275: the next call of update(), for the tab that is selected then.
UiNextFrame ==
    /\ lock_threads[Foreground].pc > Len(Ops(Foreground))
    /\ \E vendor \in TabVendors :
          lock_threads' = [lock_threads EXCEPT ![Foreground] =
                              [vendor |-> vendor, err |-> FALSE, pc |-> 1]]
    /\ UNCHANGED <<lock_owner, lock_orders>>

LocksInit ==
    /\ lock_owner = [l \in Locks |-> Free]
    /\ lock_threads \in [{Foreground} \cup BackgroundThreads ->
                            [vendor : TabVendors, err : BOOLEAN, pc : {1}]]
    /\ ~lock_threads[Foreground].err
    /\ lock_orders = {}
InitLocks ==
    LocksInit /\ UiInit /\ CompatIdle /\ ExtractIdle /\ RunsIdle /\ StatesInit /\ ProgressInit
              /\ PipIdle /\ EnvIdle /\ TaskIdle
NextLocks ==
    \/ \E t \in DOMAIN lock_threads : ThreadLock(t) /\ UNCHANGED notLockVars
    \/ \E t \in DOMAIN lock_threads : ThreadUnlock(t) /\ UNCHANGED notLockVars
    \/ \E t \in DOMAIN lock_threads : ThreadBlockingReturns(t) /\ UNCHANGED notLockVars
    \/ UiNextFrame /\ UNCHANGED notLockVars
SpecLocks == InitLocks /\ [][NextLocks]_vars

\* t is in lock() of a mutex that another thread holds.
Waiting(t) == AtOp(t, "lock") /\ lock_owner[NextArg(t)] \notin {Free, t}
\* Threads that wait for each other.
Deadlocked(S) == S # {} /\ \A t \in S : Waiting(t) /\ lock_owner[NextArg(t)] \in S

\* C26: no set of threads waits for the app mutex and the log mutexes in
\* a cycle, no thread locks a mutex it holds, and no two mutexes are ever
\* taken one inside the other in both orders.
C26_NoLockOrderHazard ==
    /\ \A S \in SUBSET DOMAIN lock_threads : ~Deadlocked(S)
    /\ \A t \in DOMAIN lock_threads : AtOp(t, "lock") => lock_owner[NextArg(t)] # t
    /\ \A pair \in lock_orders : <<pair[2], pair[1]>> \notin lock_orders

\* A failed run holds the app mutex and, inside it, the log of the stored
\* app; the other install thread waits for the app mutex while the
\* foreground thread holds the log of the same vendor.
C26_Witness ==
    /\ lock_owner[AppLock] = 1
    /\ lock_owner[StoredLogLock("azul")] = 1
    /\ Waiting(2)
    /\ lock_owner[LogLock("azul")] = Foreground
    /\ <<AppLock, StoredLogLock("azul")>> \in lock_orders

\* C27 as stated: no install thread is in an HTTP call, a subprocess or
\* file I/O while it holds a mutex that the foreground thread locks.
C27_NoBlockingUnderUiLock ==
    \A t \in BackgroundThreads :
        AtOp(t, "block") => Held(t) \cap {LogLock(v) : v \in TabVendors} = {}

(***************************************************************************)
(* The resolved version and the short-circuit of the runs of SpecRuns.     *)
(***************************************************************************)
V_17 == <<"1", "7">>
\* Texts of the version field of a request.
RequestedVersionTexts == {<<>>, V_17, V_21, V_3_12_4}

\* 540-544, 590-595: the resolved version names the install path
\* (<vendor>_versions/<vendor>-<actual_download_version>) and, with
\* install_latest, is the target of the idempotency check.
ResolvedVersion(req) == ActualDownloadVersion(req, machine.os, machine.data)
ResolvedTarget(req) == TargetVersionForCheck(req, ResolvedVersion(req))
Resolved == run_pc # "resolve" /\ run.url.ok

\* C28 as stated: with install_latest, the run of a request with any other
\* text in its version field, against the same vendor data, resolves the
\* same version and the same idempotency target.
C28_LatestIgnoresRequestedVersion ==
    (Resolved /\ request.install_latest) =>
        \A version \in RequestedVersionTexts :
            LET other == [request EXCEPT !.version = version] IN
            /\ ResolvedVersion(other) = ResolvedVersion(request)
            /\ ResolvedTarget(other) = ResolvedTarget(request)

\* The first word of the toggle button marked "(latest)" on go.dev/dl/.
Go_latest == <<"g", "o", "1", ".", "2", "2", ".", "4">>

\* C29 as stated: for Go the resolved version, and with it the idempotency
\* target, is the version marked "(latest)" that the selected href
\* contains, without the `go` prefix.
C29_GoResolvesFullVersion ==
    (Resolved /\ request.vendor = "go") =>
        /\ Contains(machine.data, Go_latest)
        /\ ResolvedVersion(request) = TrimStartMatches(Go_latest, S_go)
        /\ ResolvedTarget(request) = TrimStartMatches(Go_latest, S_go)

\* C30: a run whose idempotency check found a compatible installation has
\* returned Ok(()) from that step after reporting 1.0 for both fractions;
\* it sent no request for the archive, wrote nothing to the filesystem, set
\* no environment variable and executed no step after the check.
C30_ShortCircuitChangesNothing ==
    run.found_installed =>
        /\ run_pc = "returned"
        /\ run.result = OkResult
        /\ run.reported = <<<<One, One>>>>
        /\ run.steps = <<"resolve", "idempotency">>
        /\ "archive" \notin run.requests
        /\ ~run.downloaded
        /\ ~run.fs_written
        /\ ~run.env_set

\* The check has found the requested Python installed and the run is over.
C30_Witness ==
    /\ run.found_installed
    /\ run_pc = "returned"
    /\ request.vendor = "python"
    /\ ~request.install_latest
    /\ run.steps = <<"resolve", "idempotency">>

(***************************************************************************)
(* Where the entries of SpecExtract are written.                           *)
(***************************************************************************)
\* The number of ".." among the first k components and of the others.
Ups(path, k) == Cardinality({j \in 1..k : path[j] = ".."})
Downs(path, k) == k - Ups(path, k)
\* The path names a place in the install path or below it.
InsideInstallPath(path) ==
    /\ path = <<>> \/ path[1] # "/"
    /\ \A k \in 1..Len(path) : Ups(path, k) <= Downs(path, k)

\* C33 as stated: every file and directory the extraction creates lies
\* inside the install path.
C33_ExtractionStaysInside ==
    \A path \in fs.dirs \cup fs.files : InsideInstallPath(path)

(***************************************************************************)
(* SpecFiles: one run of run_installation_logic from the archive request   *)
(* to its return, with the files it creates under the install root, the    *)
(* subprocesses it runs and the cancellation flag, which the cancel        *)
(* handler (1606) may store at any moment of the run.                      *)
(***************************************************************************)
FileVendors == {"azul", "rust", "python"}
VersionsDir == "versions directory"
InstallPath == "install path"
RustupInit == "rustup-init"
GetPip == "get-pip.py"

\* The steps that load the flag, with the subprocesses among them.
PollsBeforeSubprocess(pc) ==
    pc \in {"download_poll", "extract_poll", "rustup_run", "get_pip_run", "ensurepip",
            "pip_install"}

\* 635, 740, 791: the steps at which cancel_requested.load is called.
Polls(pc) == pc \in {"download_poll", "extract_poll"}

\* A download loop that spools each chunk to a file.
CreatedSpooling(pc) ==
    CASE pc = "download_read" -> {VersionsDir}
      [] pc = "create_versions_dir" -> {VersionsDir}
      [] pc = "rustup_write" -> {RustupInit}
      [] pc = "extract_write" -> {InstallPath}
      [] pc = "get_pip_download" -> {GetPip}
      [] OTHER -> {}

\* What a step creates: create_dir_all at 666, File::create at 680, the
\* entries at 759-764 and 810-815, File::create at 1046.
Created(pc) ==
    CASE pc = "create_versions_dir" -> {VersionsDir}
      [] pc = "rustup_write" -> {RustupInit}
      [] pc = "extract_write" -> {InstallPath}
      [] pc = "get_pip_download" -> {GetPip}
      [] OTHER -> {}

\* The steps after the last load of the flag: for Rust from the end of the
\* download loop, else from the end of the entry loop.
LateSteps(vendor) ==
    {"normalize", "verify", "get_pip_download", "get_pip_run", "get_pip_cleanup", "ensurepip",
     "pip_install"}
    \cup (IF vendor = "rust"
          THEN {"create_versions_dir", "rustup_write", "rustup_run", "rustup_cleanup"}
          ELSE {})

NewTask(vendor, os, files) ==
    [vendor |-> vendor, os |-> os,
     cancel |-> FALSE,          \* the AtomicBool
     cancel_late |-> FALSE,     \* the flag was stored true at one of LateSteps
     chunks |-> 0, total_files |-> 0, i |-> 0,
     files_before |-> files,    \* what existed under the install root when the run began
     files |-> files,
     ran |-> <<>>,              \* the subprocesses that ran to their end, in order
     ended_at |-> "",           \* the step the run returned from
     result |-> NoResult]

\* The step at task_pc is done: the run goes on at pc.
TaskGoto(pc) ==
    /\ task_pc' = pc
    /\ task' = [task EXCEPT !.files = @ \cup Created(task_pc)]
\* The step at task_pc returns result; made: it had created its file.
TaskReturn(result, made) ==
    /\ task_pc' = "returned"
    /\ task' = [task EXCEPT !.result = result, !.ended_at = task_pc,
                             !.files = IF made THEN @ \cup Created(task_pc) ELSE @]
\* A subprocess ran to its end, then the step goes on at pc or returns result.
TaskRan(what, result, pc) ==
    /\ task_pc' = IF result = NoResult THEN pc ELSE "returned"
    /\ task' = [task EXCEPT !.ran = Append(@, what), !.result = result,
                             !.ended_at = IF result = NoResult THEN @ ELSE task_pc]
TaskCancelled == Polls(task_pc) /\ task.cancel
\* for i in 0..total_files, and the entries() iterator, are exhausted.
LoopEnded == task_pc = "extract_poll" /\ task.i = task.total_files

\* 1606: cancel_requested.store(true) by the cancel handler.
TaskStoreCancel ==
    /\ task_pc # "returned"
    /\ ~task.cancel
    /\ task' = [task EXCEPT !.cancel = TRUE,
                             !.cancel_late = task_pc \in LateSteps(task.vendor) \/ LoopEnded]
    /\ UNCHANGED task_pc

\* 625-626: the request for the archive.
TaskSend ==
    /\ task_pc = "send"
    /\ \/ TaskGoto("download_poll")
       \/ TaskReturn(ErrOther, FALSE)

\* 634-641 and 739-746, 790-797: the top of the loop; the entry loop ends
\* after the last entry without loading the flag, else the flag is loaded.
TaskPoll ==
    /\ task_pc \in {"download_poll", "extract_poll"}
    /\ IF LoopEnded THEN TaskGoto("normalize")
       ELSE IF TaskCancelled THEN TaskReturn(ErrCancelledByUser, FALSE)
       ELSE TaskGoto(IF task_pc = "download_poll" THEN "download_read" ELSE "extract_write")

\* 642-648: one read of the body into the buffer.
TaskDownloadRead ==
    /\ task_pc = "download_read"
    /\ \/ TaskGoto("create_versions_dir")
       \/ /\ task.chunks < MaxChunks
          /\ task_pc' = "download_poll"
          /\ task' = [task EXCEPT !.chunks = @ + 1, !.files = @ \cup Created(task_pc)]
       \/ TaskReturn(ErrOther, FALSE)

\* 665-666: fs::create_dir_all of the versions directory.
TaskCreateVersionsDir ==
    /\ task_pc = "create_versions_dir"
    /\ \/ TaskGoto(IF task.vendor = "rust" THEN "rustup_write" ELSE "open_archive")
       \/ TaskReturn(ErrOther, FALSE)

\* 680-691: rustup-init is created, written and made executable.
TaskRustupWrite ==
    /\ task_pc = "rustup_write"
    /\ \/ TaskGoto("rustup_run")
       \/ TaskReturn(ErrOther, FALSE)          \* File::create failed
       \/ TaskReturn(ErrOther, TRUE)           \* io::copy or chmod failed

\* 698-724: rustup-init runs; a failure status returns Err.
TaskRustupRun ==
    /\ task_pc = "rustup_run"
    /\ IF TaskCancelled THEN TaskReturn(ErrCancelledByUser, FALSE)
       ELSE \/ TaskRan("rustup-init", NoResult, "rustup_cleanup")
            \/ TaskRan("rustup-init", ErrOther, "returned")
            \/ TaskReturn(ErrOther, FALSE)      \* not started

\* 726-727: fs::remove_file(rustup-init).
TaskRustupCleanup ==
    /\ task_pc = "rustup_cleanup"
    /\ \/ /\ task_pc' = "verify"
          /\ task' = [task EXCEPT !.files = @ \ {RustupInit}]
       \/ TaskReturn(ErrOther, FALSE)

\* 734-737, 774-788: the archive is opened over the buffer.
TaskOpenArchive ==
    /\ task_pc = "open_archive"
    /\ \/ \E n \in 0..MaxEntries :
             /\ task_pc' = "extract_poll"
             /\ task' = [task EXCEPT !.total_files = n]
       \/ TaskReturn(ErrOther, FALSE)

\* 747-771, 798-823: one entry is written.
TaskExtractWrite ==
    /\ task_pc = "extract_write"
    /\ \/ /\ task_pc' = "extract_poll"
          /\ task' = [task EXCEPT !.i = @ + 1, !.files = @ \cup Created(task_pc)]
       \/ \E made \in BOOLEAN : TaskReturn(ErrOther, made)

\* 827-857: the normalization; then 861-908, which cannot fail.
TaskNormalize ==
    /\ task_pc = "normalize"
    /\ \/ TaskGoto("verify")
       \/ TaskReturn(ErrOther, FALSE)

\* 911-1019, 1208-1216: the installed executable is asked for its version.
TaskVerify ==
    /\ task_pc = "verify"
    /\ \/ TaskRan("version", IF task.vendor = "python" THEN NoResult ELSE OkResult,
                   IF task.os = "windows" THEN "get_pip_download" ELSE "ensurepip")
       \/ TaskRan("version", ErrVerification, "returned")
       \/ TaskReturn(ErrVerification, FALSE)

\* 1041-1048: get-pip.py is requested, created and written.
TaskGetPipDownload ==
    /\ task_pc = "get_pip_download"
    /\ \/ TaskGoto("get_pip_run")
       \/ TaskReturn(ErrOther, FALSE)          \* the request or File::create failed
       \/ TaskReturn(ErrOther, TRUE)           \* io::copy failed

\* 1058-1077: get-pip.py runs; a failure status returns Err.
TaskGetPipRun ==
    /\ task_pc = "get_pip_run"
    /\ IF TaskCancelled THEN TaskReturn(ErrCancelledByUser, FALSE)
       ELSE \/ TaskRan("get-pip", NoResult, "get_pip_cleanup")
            \/ TaskRan("get-pip", ErrGetPip, "returned")
            \/ TaskReturn(ErrGetPipSpawn, FALSE)

\* 1080-1081: fs::remove_file(get-pip.py).
TaskGetPipCleanup ==
    /\ task_pc = "get_pip_cleanup"
    /\ \/ /\ task_pc' = "pip_install"
          /\ task' = [task EXCEPT !.files = @ \ {GetPip}]
       \/ TaskReturn(ErrOther, FALSE)

\* 1091-1112: python -m ensurepip; its exit status is only logged.
TaskEnsurepip ==
    /\ task_pc = "ensurepip"
    /\ IF TaskCancelled THEN TaskReturn(ErrCancelledByUser, FALSE)
       ELSE \/ TaskRan("ensurepip", NoResult, "pip_install")
            \/ TaskReturn(ErrEnsurepipSpawn, FALSE)

\* 1124-1204, 1208: pip install of a library, and the end of the run.
TaskPipInstall ==
    /\ task_pc = "pip_install"
    /\ IF TaskCancelled THEN TaskReturn(ErrCancelledByUser, FALSE)
       ELSE \/ TaskReturn(OkResult, FALSE)      \* no library was asked for
            \/ TaskRan("pip install", OkResult, "returned")
            \/ TaskRan("pip install", ErrOther, "returned")
            \/ TaskReturn(ErrOther, FALSE)

\* The run is past resolution and the idempotency check; the install root
\* is empty or holds an earlier installation.
TaskInit ==
    /\ task_pc = "send"
    /\ task \in {NewTask(vendor, os, files) :
                    vendor \in FileVendors, os \in {"windows", "linux"},
                    files \in {{}, {VersionsDir, InstallPath}}}
InitFiles ==
    TaskInit /\ UiInit /\ CompatIdle /\ ExtractIdle /\ RunsIdle /\ StatesInit /\ ProgressInit
             /\ PipIdle /\ EnvIdle /\ LocksIdle
NextFiles ==
    \/ TaskStoreCancel /\ UNCHANGED notTaskVars
    \/ TaskSend /\ UNCHANGED notTaskVars
    \/ TaskPoll /\ UNCHANGED notTaskVars
    \/ TaskDownloadRead /\ UNCHANGED notTaskVars
    \/ TaskCreateVersionsDir /\ UNCHANGED notTaskVars
    \/ TaskRustupWrite /\ UNCHANGED notTaskVars
    \/ TaskRustupRun /\ UNCHANGED notTaskVars
    \/ TaskRustupCleanup /\ UNCHANGED notTaskVars
    \/ TaskOpenArchive /\ UNCHANGED notTaskVars
    \/ TaskExtractWrite /\ UNCHANGED notTaskVars
    \/ TaskNormalize /\ UNCHANGED notTaskVars
    \/ TaskVerify /\ UNCHANGED notTaskVars
    \/ TaskGetPipDownload /\ UNCHANGED notTaskVars
    \/ TaskGetPipRun /\ UNCHANGED notTaskVars
    \/ TaskGetPipCleanup /\ UNCHANGED notTaskVars
    \/ TaskEnsurepip /\ UNCHANGED notTaskVars
    \/ TaskPipInstall /\ UNCHANGED notTaskVars
SpecFiles == InitFiles /\ [][NextFiles]_vars

DownloadSteps == {"send", "download_poll", "download_read"}

\* C31: while the run is in the download, and when it has returned from
\* it cancelled or with an error, the files under the install root are the
\* ones that were there when the run began.
C31_FailedDownloadLeavesNoFile ==
    (task_pc \in DownloadSteps \/ (task_pc = "returned" /\ task.ended_at \in DownloadSteps)) =>
        task.files = task.files_before

\* The run was cancelled in the download loop after a chunk was read.
C31_Witness ==
    /\ task_pc = "returned"
    /\ task.ended_at = "download_poll"
    /\ task.result = ErrCancelledByUser
    /\ task.chunks > 0
    /\ task.files_before = {}

\* C32: a run returns the cancellation error only from the top of the
\* download loop or of the entry loop; a flag stored after the entry loop
\* (for Rust after the download loop) is never acted on: the run does not
\* return the cancellation error; it returns Ok(()) after the version
\* command ran, or the error of one of the steps after the loops.
C32_FlagReadOnlyInLoops ==
    /\ task.result = ErrCancelledByUser => task.ended_at \in {"download_poll", "extract_poll"}
    /\ task.cancel_late => task.result # ErrCancelledByUser
    /\ (task.cancel_late /\ task_pc = "returned") =>
          \/ task.result = OkResult /\ \E k \in 1..Len(task.ran) : task.ran[k] = "version"
          \/ task.result \notin {OkResult, NoResult} /\ task.ended_at \in LateSteps(task.vendor)

\* The flag was stored after the download of rustup-init; rustup-init ran
\* and the run returned Ok(()).
C32_Witness ==
    /\ task.vendor = "rust"
    /\ task.cancel_late
    /\ task.result = OkResult
    /\ task.ran = <<"rustup-init", "version">>

\* C34 as stated: when the run has ended, neither rustup-init nor
\* get-pip.py exists.
C34_TemporaryFilesRemoved ==
    task_pc = "returned" => task.files \cap {RustupInit, GetPip} = {}

(***************************************************************************)
(* The requests of SpecRuns and the version input of the window.           *)
(***************************************************************************)
\* C35 as stated: the tabs of the three Java vendors and of Python leave
\* install_latest to the user, and a request whose install_latest was
\* forced to true is one of C/C++, Rust, Node.js or Go.
C35_JavaVersionUnderUserControl ==
    /\ request.vendor \in JavaVendors \cup {"python"} => AllowsVersionInput(request.vendor)
    /\ ~AllowsVersionInput(request.vendor) =>
          request.vendor \in {"c_cpp", "rust", "nodejs", "go"}

(***************************************************************************)
(* FairStates: SpecStates with its scheduling.  A spawned thread is an OS  *)
(* thread and keeps running until its closure ends; eframe keeps calling   *)
(* update(), and the closure ends with request_repaint (1475).  The user's *)
(* clicks are under no obligation.                                         *)
(***************************************************************************)
WorkerNext ==
    \E t \in WorkerIds :
        \/ ThreadStart(t) \/ ThreadResolve(t) \/ ThreadIdempotency(t)
        \/ ThreadSend(t) \/ ThreadDownloadChunk(t) \/ ThreadOpenArchive(t)
        \/ ThreadExtractEntry(t) \/ ThreadVerify(t) \/ ThreadComplete(t)

FairStates ==
    /\ InitStates
    /\ [][NextStates]_vars
    /\ WF_vars(FrameRepaint /\ UNCHANGED notStateVars)
    /\ WF_vars(WorkerNext /\ UNCHANGED notStateVars)

\* C36 as stated: once the thread of a run has ended, then (unless the user
\* cancels or Install starts a newer run first) a frame eventually renders
\* is_installing = false and the install_result the thread returned.
C36_OutcomeEventuallyRendered ==
    \A t \in 1..MaxInstalls :
        []((IF t \in WorkerIds THEN workers[t].pc = "finished" ELSE FALSE)
              => <>(IF t \in WorkerIds
                    THEN \/ Len(workers) > t
                         \/ ui_state.install_result = ErrCancelledUi
                         \/ /\ ~Rendered.installing
                            /\ Rendered.result = workers[t].result
                    ELSE FALSE))

(***************************************************************************)
(* The cancel dialog and the background threads (Spec).                    *)
(***************************************************************************)
\* What "Yes, stop" leaves in the LanguageState (1607-1608).
CancelledOutcome == [is_installing |-> FALSE, install_result |-> ErrCancelledUi]

\* C37 as stated (extraction of the entry in progress let through): while
\* the state update() reads holds the cancelled outcome for a vendor, an
\* executing thread of that vendor runs no rustup-init, normalization,
\* environment or verification step and does not return success.
C37_CancelledRunDoesNotComplete ==
    [][\A t \in ThreadIds :
          (/\ language_states[threads[t].vendor] = CancelledOutcome
           /\ IsRunning(threads[t])
           /\ threads'[t] # threads[t])
             => /\ threads[t].pc \notin CompletionSteps \cup {"rustup_run"}
                /\ threads'[t].result # OkResult]_vars

\* C38 as stated: a step that stores true into a vendor's cancellation flag
\* or writes the cancelled outcome into a vendor's state does so for a
\* vendor that update() holds as installing at that moment.
C38_ConfirmCancelsInstallingVendor ==
    [][\A v \in TabVendors :
          (\/ cancel_requested'[v] /\ ~cancel_requested[v]
           \/ language_states'[v] = CancelledOutcome /\ language_states[v] # CancelledOutcome)
             => language_states[v].is_installing]_vars

(***************************************************************************)
(* The two version comparisons of a Python request (SpecRuns).             *)
(***************************************************************************)
\* C39 as stated: for a Python request whose resolution succeeds and an
\* interpreter reporting some version, the idempotency check accepts that
\* version exactly when the post-install verification accepts it.
C39_IdempotencyAndVerificationAgree ==
    LET installed_version_str ==
            ParseInstalledVersion(request.vendor, machine.stdout, machine.stderr)
        target_version_for_check ==
            TargetVersionForCheck(request,
                ActualDownloadVersion(request, machine.os, machine.data)) IN
    (/\ request.vendor = "python"
     /\ DownloadUrl(request, machine.os, machine.data, machine.link).ok)
        => (is_version_compatible(installed_version_str, target_version_for_check)
              <=> is_version_compatible(installed_version_str, request.version))

(***************************************************************************)
(* Specifiers without "==" and ">=" in the library check (SpecPip).        *)
(***************************************************************************)
\* The specifier takes the last branch of is_version_compatible.
Unconstrained(lib_spec) ==
    ~Contains(lib_spec, <<"=", "=">>) /\ ~Contains(lib_spec, <<">", "=">>)

\* C40: the check of a specifier that contains neither "==" nor ">=" passes
\* only if the version pip show reported equals the whole specifier text;
\* when it does not, the check ends the run with the library compatibility
\* error for that specifier.
C40_UnconstrainedSpecifierComparedWhole ==
    [][(pip_pc = "check" /\ Unconstrained(pip.libraries[pip.lib]))
         => LET lib_spec == pip.libraries[pip.lib]
                e == pip'.events[Len(pip'.events)] IN
            /\ e = Event("check", pip.lib, pip.installed_lib_version = lib_spec)
            /\ pip.installed_lib_version # lib_spec =>
                  /\ pip_pc' = "returned"
                  /\ pip'.result = ErrLibraryCompat(LibName(lib_spec), lib_spec,
                                                    pip.installed_lib_version)]_vars

\* pip install of the bare name succeeded, pip show reported version 1, and
\* the check ended the run with the compatibility error.
C40_Witness ==
    /\ pip_pc = "returned"
    /\ pip.python_libraries = L_bare
    /\ Len(pip.events) = 5
    /\ pip.events[3] = Event("install", 1, TRUE)
    /\ pip.events[5] = Event("check", 1, FALSE)
    /\ pip.result = ErrLibraryCompat(L_bare, L_bare, <<"1">>)

====
